---- MODULE Spec2Model ----
(***************************************************************************)
(* pombump: patching of Maven POM project models.                          *)
(*                                                                         *)
(* PatchProject (pkg/patch.go) mutates a parsed project in place;          *)
(* PatchStrategy (pkg/analyze.go) routes requested patches to direct       *)
(* patches, property updates and BOM recommendations.                      *)
(* PreserveCommentsInPOMUpdate (package pkg) copies                        *)
(* the comments of the original file into the newly serialized document.   *)
(*                                                                         *)
(* A string that the code only compares for equality is a TLA+ string.     *)
(* A version or a property name is a sequence of one-character strings,    *)
(* because the code orders versions (Go's < on strings) and cuts property  *)
(* names out of them; "" is <<>> there.                                    *)
(* A Go pointer that may be nil is a boolean "present" flag beside the     *)
(* value; a nil-pointer dereference is the Go runtime panic, recorded in   *)
(* panicked, the project keeping the writes made before it.                *)
(***************************************************************************)
EXTENDS Integers, Sequences, FiniteSets, TLC

VARIABLES
    project,          \* *gopom.Project handed to PatchProject, mutated in place
    patches,          \* []Patch argument
    propertyPatches,  \* map[string]string: argument of PatchProject, second
                      \* return value of PatchStrategy
    before,           \* the project as it was when the last call started
    panicked,         \* the last call ended in a runtime panic
    err,              \* error returned by the last call ("" is nil)
    calls,            \* number of PatchProject calls made so far
    result,           \* *AnalysisResult handed to PatchStrategy
    directPatches,    \* first return value of PatchStrategy
    pc,               \* "patch": PatchProject runs; "strategy": PatchStrategy is to
                      \* run; "routed": it has returned; "preserve":
                      \* PreserveCommentsInPOMUpdate is to run; "preserved": it
                      \* has returned; "analyze", "analyzePath", "validate": an
                      \* analysis or a validator is to run; "analyzed",
                      \* "analyzedPath", "validated": it has returned
    inputPath,        \* path of the original POM file, as the caller wrote it
    fileKind,         \* what the file system holds at the cleaned path
    original,         \* the lines of the original POM file
    outputContent,    \* the lines of the newly serialized document
    merged,           \* bytes returned by PreserveCommentsInPOMUpdate
    opened,           \* the original file has been opened
    pomFiles,         \* the files of the project tree, in the order of the walk
    returned,         \* first return value of the last call of PatchProject,
                      \* AnalyzeProject or AnalyzeProjectPath: "nil", "value",
                      \* or "none" when no call has returned
    validated         \* the argument handed to ValidatePatch,
                      \* ValidatePropertyPatch or ValidateFilePath

rewriterVars == <<inputPath, fileKind, original, outputContent, merged, opened>>

analyzerVars == <<pomFiles, returned>>

vars == <<project, patches, propertyPatches, before, panicked, err, calls,
          result, directPatches, pc, rewriterVars, analyzerVars, validated>>

----------------------------------------------------------------------------
(* Bounds of the model *)

MaxDeps == 2
MaxPatches == 2
MaxCalls == 2
MaxStrategyPatches == 4
MaxComments == 2
MaxSegments == 3
MaxAnalyzed == 2
MaxPomFiles == 2

----------------------------------------------------------------------------
(* Generic helpers *)

Range(s) == {s[i] : i \in 1..Len(s)}

SeqsUpTo(S, n) == UNION {[1..k -> S] : k \in 0..n}

\* every order in which a Go `for range` may visit the keys of a map
Orders(S) == {s \in [1..Cardinality(S) -> S] : \A i, j \in 1..Cardinality(S) : s[i] = s[j] => i = j}

EmptyMap == [k \in {} |-> ""]

\* partial maps from a subset of K to V
Maps(K, V) == UNION {[D -> V] : D \in SUBSET K}

\* byte values of the characters the model's versions and names are made of
CharCode ==
    [c \in {"$", ".", "0", "1", "2", "3", "9", "p", "q", "{", "}"} |->
        CASE c = "$" -> 36 [] c = "." -> 46 [] c = "0" -> 48 [] c = "1" -> 49
          [] c = "2" -> 50 [] c = "3" -> 51 [] c = "9" -> 57 [] c = "p" -> 112
          [] c = "q" -> 113 [] c = "{" -> 123 [] c = "}" -> 125]

\* Go's a < b on strings: bytewise lexicographic order
StrLess(a, b) ==
    \E k \in 1..(Len(a) + 1) :
        /\ k <= Len(b)
        /\ \A i \in 1..(k - 1) : a[i] = b[i]
        /\ (k = Len(a) + 1 \/ CharCode[a[k]] < CharCode[b[k]])

----------------------------------------------------------------------------
(* Data model *)

Patch(g, a, v, s, t) == [groupId |-> g, artifactId |-> a, version |-> v, scope |-> s, type |-> t]

Dependency(g, a, v, s, t) == [groupId |-> g, artifactId |-> a, version |-> v, scope |-> s, type |-> t]

Project(nil, hasDeps, deps, hasDM, hasDMDeps, dmDeps, hasProps, props) ==
    [isNil |-> nil,
     depsPresent |-> hasDeps, deps |-> deps,
     dmPresent |-> hasDM, dmDepsPresent |-> hasDMDeps, dmDeps |-> dmDeps,
     propsPresent |-> hasProps, props |-> props]

DependencyInfo(g, a, v, uses, name, count) ==
    [GroupID |-> g, ArtifactID |-> a, Version |-> v,
     UsesProperty |-> uses, PropertyName |-> name, PropertyUsageCount |-> count]

BOMInfo(g, a, v, t, s) == [GroupID |-> g, ArtifactID |-> a, Version |-> v, Type |-> t, Scope |-> s]

AnalysisResult(deps, counts, props, boms) ==
    [Dependencies |-> deps, PropertyUsageCounts |-> counts, Properties |-> props, BOMs |-> boms]

EmptyResult == AnalysisResult(EmptyMap, EmptyMap, EmptyMap, <<>>)

\* fmt.Sprintf("%s:%s", groupID, artifactID)
DepKey(g, a) == <<g, ":", a>>

NilProject == Project(TRUE, FALSE, <<>>, FALSE, FALSE, <<>>, FALSE, EmptyMap)

\* a nil []byte result; otherwise the lines of the returned document and, for
\* each comment block written into it, the block's LineNumber
NoBytes == [present |-> FALSE, lines |-> <<>>, emitted |-> <<>>]

Bytes(lines, emitted) == [present |-> TRUE, lines |-> lines, emitted |-> emitted]

\* no call of PreserveCommentsInPOMUpdate is part of the run
NoRewrite ==
    /\ inputPath = <<>>
    /\ fileKind = "missing"
    /\ original = <<>>
    /\ outputContent = <<>>
    /\ merged = NoBytes
    /\ opened = FALSE

\* no validator has been handed anything
NoCandidate == [kind |-> "none"]

NoValidation == validated = NoCandidate

\* no project tree is walked and no call has returned
NoAnalysis ==
    /\ pomFiles = <<>>
    /\ returned = "none"

----------------------------------------------------------------------------
(* PatchProject, pkg/patch.go *)

\* the match test of both loops
Matches(dep, patch) == dep.artifactId = patch.artifactId /\ dep.groupId = patch.groupId

\* (mutant) the patch's scope and type are written along with the version
RECURSIVE PatchVersionScopeType(_, _)
PatchVersionScopeType(dep, ps) ==
    IF ps = <<>> THEN dep
    ELSE PatchVersionScopeType(IF Matches(dep, Head(ps))
                               THEN [dep EXCEPT !.version = Head(ps).version,
                                                !.scope = Head(ps).scope,
                                                !.type = Head(ps).type]
                               ELSE dep,
                               Tail(ps))

\* inner loop over the patches for one entry: every matching patch overwrites
\* the version, in list order; scope and type are not written
RECURSIVE PatchVersion(_, _)
PatchVersion(dep, ps) ==
    IF ps = <<>> THEN dep
    ELSE PatchVersion(IF Matches(dep, Head(ps))
                      THEN [dep EXCEPT !.version = Head(ps).version]
                      ELSE dep,
                      Tail(ps))

\* outer loop over one dependency list
PatchDependencies(deps, ps) == [i \in 1..Len(deps) |-> PatchVersion(deps[i], ps)]

\* the patches the loop over one list deletes from missingDeps
Found(deps, ps) == {p \in Range(ps) : \E i \in 1..Len(deps) : Matches(deps[i], p)}

\* (mutant) missingDeps keyed by (groupId, artifactId), a later patch replacing
\* an earlier one
InitialMissingDepsByKey(ps) ==
    {ps[i] : i \in {i \in 1..Len(ps) :
                      \A j \in 1..Len(ps) :
                          (ps[j].groupId = ps[i].groupId /\ ps[j].artifactId = ps[i].artifactId)
                              => j <= i}}

\* missingDeps: a map keyed by the whole Patch value, filled from the patch list
InitialMissingDeps(ps) == Range(ps)

\* (mutant) the loop over the dependency-management entries deletes nothing
MissingDepsDirectOnly(proj, ps) == InitialMissingDeps(ps) \ Found(proj.deps, ps)

\* missingDeps once both loops have run
MissingDeps(proj, ps) ==
    (InitialMissingDeps(ps) \ Found(proj.deps, ps)) \ Found(proj.dmDeps, ps)

\* the gopom.Dependency appended for one missing patch
NewDependency(md) == Dependency(md.groupId, md.artifactId, md.version, md.scope, md.type)

\* the entries appended when missingDeps is visited in the order given
AppendMissing(dmDeps, order) == dmDeps \o [i \in 1..Len(order) |-> NewDependency(order[i])]

\* the property upsert
PatchProperties(proj, pp) ==
    IF ~proj.propsPresent /\ DOMAIN pp # {}
    THEN [proj EXCEPT !.propsPresent = TRUE, !.props = pp]
    ELSE IF DOMAIN pp = {} THEN proj
         ELSE [proj EXCEPT !.props = [k \in DOMAIN proj.props \cup DOMAIN pp |->
                                         IF k \in DOMAIN pp THEN pp[k] ELSE proj.props[k]]]

\* the project after the loop over the direct dependencies
AfterDirect(proj, ps) ==
    IF proj.depsPresent THEN [proj EXCEPT !.deps = PatchDependencies(proj.deps, ps)] ELSE proj

\* the loop over the dependency-management entries dereferences
\* DependencyManagement.Dependencies whenever DependencyManagement is non-nil
DMLoopPanics(proj) == proj.dmPresent /\ ~proj.dmDepsPresent

\* (mutant) only the patches no direct dependency matched are tried
AfterDMUnmatchedOnly(proj, ps) ==
    IF proj.dmPresent
    THEN [proj EXCEPT !.dmDeps = PatchDependencies(proj.dmDeps,
                                     SelectSeq(ps, LAMBDA p : p \notin Found(proj.deps, ps)))]
    ELSE proj

\* the loop over the dependency-management entries
AfterDM(proj, ps) ==
    IF proj.dmPresent THEN [proj EXCEPT !.dmDeps = PatchDependencies(proj.dmDeps, ps)] ELSE proj

\* the container is created empty: its Dependencies pointer is nil
CreateDM(proj, missing) ==
    IF ~proj.dmPresent /\ missing # {} THEN [proj EXCEPT !.dmPresent = TRUE] ELSE proj

\* the append dereferences DependencyManagement.Dependencies for every missing patch
AppendPanics(proj, missing) == missing # {} /\ ~proj.dmDepsPresent

PatchProject ==
    /\ pc = "patch"
    /\ calls < MaxCalls
    /\ ~panicked
    /\ err = ""
    /\ calls' = calls + 1
    /\ before' = project
    /\ IF project.isNil
       THEN /\ err' = "project is nil"
            /\ returned' = "nil"
            /\ UNCHANGED <<project, panicked>>
       ELSE LET p1 == AfterDirect(project, patches)
                missing == MissingDeps(project, patches)
            IN  /\ err' = ""
                /\ IF DMLoopPanics(p1)
                   THEN /\ panicked' = TRUE
                        /\ returned' = "none"
                        /\ project' = p1
                   ELSE LET p2 == CreateDM(AfterDM(p1, patches), missing)
                        IN  IF AppendPanics(p2, missing)
                            THEN /\ panicked' = TRUE
                                 /\ returned' = "none"
                                 /\ project' = p2
                            ELSE /\ panicked' = FALSE
                                 /\ returned' = "value"
                                 /\ \E order \in Orders(missing) :
                                       project' = PatchProperties(
                                           [p2 EXCEPT !.dmDeps = AppendMissing(p2.dmDeps, order)],
                                           propertyPatches)
    /\ UNCHANGED <<patches, propertyPatches, result, directPatches, pc, rewriterVars, pomFiles,
                   validated>>

----------------------------------------------------------------------------
(* Inputs of PatchProject *)

G1 == "io.netty"
G2 == "org.json"
A1 == "netty-handler"
A2 == "netty-codec"

\* entries a parsed POM may hold; scope and type may be empty
DepPool ==
    { Dependency(G1, A1, <<"1">>, "compile", "jar"),
      Dependency(G1, A2, <<"1">>, "", "") }

\* requested patches: two versions for an existing key, two for a key no
\* project entry has (it shares its group with one entry and its artifact
\* with the other)
PatchPool ==
    { Patch(G1, A1, <<"2">>, "import", "pom"),
      Patch(G1, A1, <<"3">>, "import", "pom"),
      Patch(G2, A1, <<"2">>, "import", "jar"),
      Patch(G2, A1, <<"3">>, "test", "jar") }

\* property names a patch may set, and those a project may already define
PropNames == {<<"p">>, <<"q">>}

ProjectPropNames == {<<"p">>}

Projects ==
    {NilProject} \cup
    { Project(FALSE, hasDeps, deps, hasDM, hasDMDeps, dmDeps, hasProps, props) :
        hasDeps \in BOOLEAN, deps \in SeqsUpTo(DepPool, MaxDeps),
        hasDM \in BOOLEAN, hasDMDeps \in BOOLEAN, dmDeps \in SeqsUpTo(DepPool, MaxDeps),
        hasProps \in BOOLEAN, props \in Maps(ProjectPropNames, {"old"}) }

\* a nil pointer holds nothing, and a list hangs off its container
WellFormed(p) ==
    /\ (~p.depsPresent => p.deps = <<>>)
    /\ (~p.dmPresent => ~p.dmDepsPresent)
    /\ (~p.dmDepsPresent => p.dmDeps = <<>>)
    /\ (~p.propsPresent => p.props = EmptyMap)

InitPatch ==
    /\ project \in {p \in Projects : WellFormed(p)}
    /\ patches \in SeqsUpTo(PatchPool, MaxPatches)
    /\ propertyPatches \in Maps(PropNames, {"new"})
    /\ before = project
    /\ panicked = FALSE
    /\ err = ""
    /\ calls = 0
    /\ result = EmptyResult
    /\ directPatches = <<>>
    /\ pc = "patch"
    /\ NoRewrite
    /\ NoAnalysis
    /\ NoValidation

NextPatch == PatchProject

SpecPatch == InitPatch /\ [][NextPatch]_vars

----------------------------------------------------------------------------
(* Properties of PatchProject.  before is the project when the last call     *)
(* started, project what that call left.                                    *)

Called == calls > 0 /\ ~before.isNil

Returned == Called /\ ~panicked /\ err = ""

SameKey(x, y) == x.groupId = y.groupId /\ x.artifactId = y.artifactId

\* the patch matches an entry the list held when the call started
MatchedIn(deps, p) == \E i \in 1..Len(deps) : SameKey(deps[i], p)

Unmatched(p) == ~MatchedIn(before.deps, p) /\ ~MatchedIn(before.dmDeps, p)

\* the version of the last patch of the list with the entry's key
LastIndex(d) == CHOOSE i \in 1..Len(patches) :
                    /\ SameKey(patches[i], d)
                    /\ \A j \in 1..Len(patches) : SameKey(patches[j], d) => j <= i

Requested(d) == \E i \in 1..Len(patches) : SameKey(patches[i], d)

LastVersion(d) == patches[LastIndex(d)].version

\* positions of the dependency-management entries the last call appended
Appended == (Len(before.dmDeps) + 1)..Len(project.dmDeps)

\* C1 (as claimed): every patch that matches no direct dependency and no
\* dependency-management entry is appended to DependencyManagement.Dependencies
\* with its five fields verbatim, the container being created when the project
\* has none, and the direct dependency list gains no entry.
C1_MissingAppendedToDM ==
    Called =>
        /\ \A p \in Range(patches) :
              Unmatched(p) =>
                  /\ project.dmPresent
                  /\ project.dmDepsPresent
                  /\ \E i \in Appended :
                        /\ project.dmDeps[i].groupId = p.groupId
                        /\ project.dmDeps[i].artifactId = p.artifactId
                        /\ project.dmDeps[i].version = p.version
                        /\ project.dmDeps[i].scope = p.scope
                        /\ project.dmDeps[i].type = p.type
        /\ Len(project.deps) = Len(before.deps)

\* an existing entry keeps everything but its version, which is that of the
\* last patch with its key when there is one
EntryFrame(old, new) ==
    /\ new.groupId = old.groupId
    /\ new.artifactId = old.artifactId
    /\ new.scope = old.scope
    /\ new.type = old.type
    /\ new.version = IF Requested(old) THEN LastVersion(old) ELSE old.version

\* C2: a patch that matches an existing direct or dependency-management entry
\* changes only that entry's version, to the patch version (the last such
\* patch's, when several share the key); scope, type, the entries no patch
\* matches and the number and order of the existing entries are unchanged, and
\* no dependency-management entry is appended for a matched patch.
C2_MatchedPatchOnlyWritesVersion ==
    Called =>
        /\ Len(project.deps) = Len(before.deps)
        /\ Len(project.dmDeps) >= Len(before.dmDeps)
        /\ \A i \in 1..Len(before.deps) : EntryFrame(before.deps[i], project.deps[i])
        /\ \A i \in 1..Len(before.dmDeps) : EntryFrame(before.dmDeps[i], project.dmDeps[i])
        /\ \A i \in Appended :
              /\ ~MatchedIn(before.deps, project.dmDeps[i])
              /\ ~MatchedIn(before.dmDeps, project.dmDeps[i])

\* a call returned having bumped a direct and a dependency-management entry
\* whose scope and type differ from the patch's, beside an entry no patch matches
C2_Witness ==
    /\ Returned
    /\ \E i \in 1..Len(before.deps) :
          /\ Requested(before.deps[i])
          /\ project.deps[i].version # before.deps[i].version
          /\ project.deps[i].scope # patches[LastIndex(before.deps[i])].scope
    /\ \E i \in 1..Len(before.dmDeps) :
          /\ Requested(before.dmDeps[i])
          /\ project.dmDeps[i].version # before.dmDeps[i].version
    /\ \E i \in 1..Len(before.dmDeps) : ~Requested(before.dmDeps[i])

\* C3 (as claimed): PatchProject on a non-nil project never panics and returns
\* a nil error, whichever of the dependency list, the dependencyManagement
\* section, its dependencies list and the properties are absent, for every
\* patch list and property map.
C3_NeverPanics == Called => (~panicked /\ err = "")

\* C4 (as claimed): a patch that matches a direct dependency is not matched
\* against dependency management, so every dependency-management entry with
\* the same key keeps its version.
C4_OnePlacement ==
    Called =>
        \A p \in Range(patches) :
            MatchedIn(before.deps, p) =>
                \A i \in 1..Len(before.dmDeps) :
                    SameKey(before.dmDeps[i], p) =>
                        project.dmDeps[i].version = before.dmDeps[i].version

\* C4 (amended): every patch is matched against both lists; a patch that
\* matches a direct dependency also overwrites the version of every
\* dependency-management entry with the same key (the last such patch wins).
C4_BothPlacementsPatched ==
    Called =>
        \A p \in Range(patches) :
            MatchedIn(before.deps, p) =>
                /\ \A i \in 1..Len(before.deps) :
                      SameKey(before.deps[i], p) =>
                          project.deps[i].version = LastVersion(p)
                /\ \A i \in 1..Len(before.dmDeps) :
                      SameKey(before.dmDeps[i], p) =>
                          project.dmDeps[i].version = LastVersion(p)

\* a key held by both lists was patched in both
C4_Witness ==
    /\ Returned
    /\ \E i \in 1..Len(before.deps), j \in 1..Len(before.dmDeps) :
          /\ SameKey(before.deps[i], before.dmDeps[j])
          /\ Requested(before.deps[i])
          /\ project.deps[i].version # before.deps[i].version
          /\ project.dmDeps[j].version # before.dmDeps[j].version

\* the entries of the list with the key of p
EntriesFor(deps, p) == {i \in 1..Len(deps) : SameKey(deps[i], p)}

\* C5 (as claimed): several patches with one key that match no existing
\* dependency leave exactly one dependency-management entry for that key,
\* carrying the version of the last such patch.  (Stated for the calls that
\* return.)
C5_DedupByKey ==
    Returned =>
        \A p \in Range(patches) :
            Unmatched(p) =>
                /\ Cardinality(EntriesFor(project.dmDeps, p)) = 1
                /\ \A i \in EntriesFor(project.dmDeps, p) :
                      project.dmDeps[i].version = LastVersion(p)

\* C5 (amended): the patches that match nothing are deduplicated by their
\* whole value: on return each distinct unmatched patch value has exactly one
\* appended entry equal to it, so a key requested with n distinct patch values
\* gets n entries, and nothing else is appended.
C5_DedupByWholePatch ==
    Returned =>
        /\ \A p \in Range(patches) :
              Unmatched(p) =>
                  Cardinality({i \in Appended : project.dmDeps[i] = p}) = 1
        /\ \A i \in Appended :
              \E p \in Range(patches) : Unmatched(p) /\ project.dmDeps[i] = p

\* two patches with one key and different versions each got an entry, and a
\* patch given twice got one
C5_Witness ==
    /\ Returned
    /\ \E i, j \in Appended :
          /\ SameKey(project.dmDeps[i], project.dmDeps[j])
          /\ project.dmDeps[i].version # project.dmDeps[j].version

C5_WitnessRepeated ==
    /\ Returned
    /\ Len(patches) = 2
    /\ patches[1] = patches[2]
    /\ Cardinality(Appended) = 1

\* C6 (as claimed): a second application of the same inputs to the result of
\* the first leaves every dependency version and property value as the first
\* left it and adds no dependency-management entry.
C6_Idempotent ==
    (calls >= 2 /\ ~before.isNil) =>
        /\ ~panicked
        /\ Len(project.deps) = Len(before.deps)
        /\ Len(project.dmDeps) = Len(before.dmDeps)
        /\ \A i \in 1..Len(before.deps) : project.deps[i].version = before.deps[i].version
        /\ \A i \in 1..Len(before.dmDeps) : project.dmDeps[i].version = before.dmDeps[i].version
        /\ project.props = before.props

\* the patch list requests the key of d at more than one version
ConflictingRequests(d) ==
    \E i, j \in 1..Len(patches) :
        /\ SameKey(patches[i], d)
        /\ SameKey(patches[j], d)
        /\ patches[i].version # patches[j].version

\* C6 (amended): a second application adds no dependency-management entry,
\* changes no property value and changes no dependency version, except that
\* the entries of a key the patch list requests at several versions all end
\* at the version of the last patch with that key.
C6_IdempotentUpToConflictingRequests ==
    (calls >= 2 /\ ~before.isNil) =>
        /\ ~panicked
        /\ err = ""
        /\ project.deps = before.deps
        /\ Len(project.dmDeps) = Len(before.dmDeps)
        /\ \A i \in 1..Len(before.dmDeps) :
              \/ project.dmDeps[i] = before.dmDeps[i]
              \/ /\ ConflictingRequests(before.dmDeps[i])
                 /\ project.dmDeps[i] = [before.dmDeps[i] EXCEPT !.version = LastVersion(before.dmDeps[i])]
        /\ project.propsPresent = before.propsPresent
        /\ project.props = before.props

\* a second application ran over a project whose entries and properties the
\* first one had patched, and changed nothing
C6_Witness ==
    /\ calls = 2
    /\ ~before.isNil
    /\ \E i \in 1..Len(before.deps) : Requested(before.deps[i])
    /\ \E i \in 1..Len(before.dmDeps) : Requested(before.dmDeps[i])
    /\ DOMAIN propertyPatches # {}
    /\ project = before

----------------------------------------------------------------------------
(* PatchStrategy, pkg/analyze.go *)

\* ShouldUseProperty: (UsesProperty, PropertyName) of a known dependency
ShouldUseProperty(res, groupID, artifactID) ==
    LET depKey == DepKey(groupID, artifactID)
    IN  IF depKey \in DOMAIN res.Dependencies /\ res.Dependencies[depKey].UsesProperty
        THEN [use |-> TRUE, name |-> res.Dependencies[depKey].PropertyName]
        ELSE [use |-> FALSE, name |-> <<>>]

\* patchGroups: groupId -> artifactId -> version, a later patch overwriting an
\* earlier one for the same artifact
PatchGroups(ps) ==
    [g \in {ps[i].groupId : i \in 1..Len(ps)} |->
        [a \in {ps[i].artifactId : i \in {i \in 1..Len(ps) : ps[i].groupId = g}} |->
            LET last == CHOOSE i \in 1..Len(ps) :
                            /\ ps[i].groupId = g
                            /\ ps[i].artifactId = a
                            /\ \A j \in 1..Len(ps) :
                                  (ps[j].groupId = g /\ ps[j].artifactId = a) => j <= i
            IN  ps[last].version]]

\* the test one BOM of result.BOMs passes for a group
BOMMatchesGroup(bom, groupID) ==
    \/ bom.GroupID = groupID
    \/ (groupID = "io.netty" /\ bom.ArtifactID = "netty-bom")
    \/ (groupID = "org.springframework"
           /\ (bom.ArtifactID = "spring-bom" \/ bom.ArtifactID = "spring-framework-bom"))

NoBOM == BOMInfo("", "", <<>>, "", "")

\* findBOMForGroup: the first BOM of the list that passes, or nil
FindBOMForGroup(res, groupID) ==
    LET hits == {i \in 1..Len(res.BOMs) : BOMMatchesGroup(res.BOMs[i], groupID)}
    IN  IF hits = {}
        THEN [found |-> FALSE, bom |-> NoBOM]
        ELSE [found |-> TRUE, bom |-> res.BOMs[CHOOSE i \in hits : \A j \in hits : i <= j]]

VersionConflict(g, versions, action, candidate) ==
    [GroupID |-> g, RequestedVersions |-> versions,
     RecommendedAction |-> action, BOMCandidate |-> candidate]

\* detectVersionConflicts: one conflict per group whose artifacts, at least
\* two, do not all request one version (the slice is in map order)
DetectVersionConflicts(res, ps) ==
    LET patchGroups == PatchGroups(ps)
    IN  { VersionConflict(g, patchGroups[g],
                          IF FindBOMForGroup(res, g).found THEN "update_bom" ELSE "resolve_manually",
                          FindBOMForGroup(res, g)) :
            g \in {g \in DOMAIN patchGroups :
                      /\ Cardinality(DOMAIN patchGroups[g]) >= 2
                      /\ Cardinality({patchGroups[g][a] : a \in DOMAIN patchGroups[g]}) > 1} }

\* (mutant) versions compared as numbers: the longer digit string is greater
CalculateNumericBOMVersion(requestedVersions) ==
    LET versions == {requestedVersions[a] : a \in DOMAIN requestedVersions}
    IN  IF versions = {} THEN <<>>
        ELSE CHOOSE v \in versions :
                 \A w \in versions : ~(Len(v) < Len(w) \/ (Len(v) = Len(w) /\ StrLess(v, w)))

\* calculateOptimalBOMVersion: the greatest version under Go's string order
\* (any version replaces "", and a greater one replaces a smaller one)
CalculateOptimalBOMVersion(requestedVersions) ==
    LET versions == {requestedVersions[a] : a \in DOMAIN requestedVersions}
    IN  IF versions = {} THEN <<>>
        ELSE CHOOSE v \in versions : \A w \in versions : ~StrLess(v, w)

\* the patch recommended for a conflict that has a BOM candidate
BOMPatch(conflict) ==
    Patch(conflict.BOMCandidate.bom.GroupID, conflict.BOMCandidate.bom.ArtifactID,
          CalculateOptimalBOMVersion(conflict.RequestedVersions), "import", "pom")

\* the conflicts step 2 turns into BOM recommendations
HandledConflicts(conflicts) ==
    {c \in conflicts : c.BOMCandidate.found /\ c.RecommendedAction = "update_bom"}

\* (mutant) a later patch overwrites the property an earlier patch set
RECURSIVE RoutePatchesLastWins(_, _, _, _, _)
RoutePatchesLastWins(res, ps, processedGroupIDs, direct, props) ==
    IF ps = <<>> THEN [direct |-> direct, props |-> props]
    ELSE LET patch == Head(ps)
             sup == ShouldUseProperty(res, patch.groupId, patch.artifactId)
         IN  IF patch.groupId \in processedGroupIDs
             THEN RoutePatchesLastWins(res, Tail(ps), processedGroupIDs, direct, props)
             ELSE IF sup.use /\ sup.name # <<>>
                  THEN RoutePatchesLastWins(res, Tail(ps), processedGroupIDs, direct,
                           [n \in DOMAIN props \cup {sup.name} |->
                               IF n = sup.name THEN patch.version ELSE props[n]])
                  ELSE RoutePatchesLastWins(res, Tail(ps), processedGroupIDs,
                                            Append(direct, patch), props)

\* (mutant) the patches of a group handled by a BOM recommendation are routed too
RECURSIVE RoutePatchesNoSkip(_, _, _, _, _)
RoutePatchesNoSkip(res, ps, processedGroupIDs, direct, props) ==
    IF ps = <<>> THEN [direct |-> direct, props |-> props]
    ELSE LET patch == Head(ps)
             sup == ShouldUseProperty(res, patch.groupId, patch.artifactId)
         IN  IF sup.use /\ sup.name # <<>>
             THEN IF sup.name \in DOMAIN props
                  THEN RoutePatchesNoSkip(res, Tail(ps), processedGroupIDs, direct, props)
                  ELSE RoutePatchesNoSkip(res, Tail(ps), processedGroupIDs, direct,
                           [n \in DOMAIN props \cup {sup.name} |->
                               IF n = sup.name THEN patch.version ELSE props[n]])
             ELSE RoutePatchesNoSkip(res, Tail(ps), processedGroupIDs,
                                     Append(direct, patch), props)

\* (mutant) a patch routed to a property is also kept as a direct patch
RECURSIVE RoutePatchesAlsoDirect(_, _, _, _, _)
RoutePatchesAlsoDirect(res, ps, processedGroupIDs, direct, props) ==
    IF ps = <<>> THEN [direct |-> direct, props |-> props]
    ELSE LET patch == Head(ps)
             sup == ShouldUseProperty(res, patch.groupId, patch.artifactId)
         IN  IF patch.groupId \in processedGroupIDs
             THEN RoutePatchesAlsoDirect(res, Tail(ps), processedGroupIDs, direct, props)
             ELSE IF sup.use /\ sup.name # <<>>
                  THEN IF sup.name \in DOMAIN props
                       THEN RoutePatchesAlsoDirect(res, Tail(ps), processedGroupIDs,
                                                   Append(direct, patch), props)
                       ELSE RoutePatchesAlsoDirect(res, Tail(ps), processedGroupIDs,
                                Append(direct, patch),
                                [n \in DOMAIN props \cup {sup.name} |->
                                    IF n = sup.name THEN patch.version ELSE props[n]])
                  ELSE RoutePatchesAlsoDirect(res, Tail(ps), processedGroupIDs,
                                              Append(direct, patch), props)

\* step 3, the loop over the patches: a patch of a processed group is skipped;
\* a patch whose dependency uses a property with a non-empty name sets that
\* property unless an earlier patch did; any other patch is a direct patch
RECURSIVE RoutePatches(_, _, _, _, _)
RoutePatches(res, ps, processedGroupIDs, direct, props) ==
    IF ps = <<>> THEN [direct |-> direct, props |-> props]
    ELSE LET patch == Head(ps)
             sup == ShouldUseProperty(res, patch.groupId, patch.artifactId)
         IN  IF patch.groupId \in processedGroupIDs
             THEN RoutePatches(res, Tail(ps), processedGroupIDs, direct, props)
             ELSE IF sup.use /\ sup.name # <<>>
                  THEN IF sup.name \in DOMAIN props
                       THEN RoutePatches(res, Tail(ps), processedGroupIDs, direct, props)
                       ELSE RoutePatches(res, Tail(ps), processedGroupIDs, direct,
                                [n \in DOMAIN props \cup {sup.name} |->
                                    IF n = sup.name THEN patch.version ELSE props[n]])
                  ELSE RoutePatches(res, Tail(ps), processedGroupIDs,
                                    Append(direct, patch), props)

\* (mutant) the BOM recommendations are written into the analysis
PatchStrategyRecordingBOMs ==
    /\ pc = "strategy"
    /\ LET conflicts == DetectVersionConflicts(result, patches)
           handled == HandledConflicts(conflicts)
           processedGroupIDs == {c.GroupID : c \in handled}
           routed == RoutePatches(result, patches, processedGroupIDs, <<>>, EmptyMap)
       IN  \E order \in Orders(handled) :
              /\ directPatches' = routed.direct \o [i \in 1..Len(order) |-> BOMPatch(order[i])]
              /\ propertyPatches' = routed.props
              /\ result' = [result EXCEPT !.BOMs =
                               @ \o [i \in 1..Len(order) |-> order[i].BOMCandidate]]
    /\ pc' = "routed"
    /\ UNCHANGED <<project, patches, before, panicked, err, calls, rewriterVars, analyzerVars, validated>>

PatchStrategy ==
    /\ pc = "strategy"
    /\ LET conflicts == DetectVersionConflicts(result, patches)
           handled == HandledConflicts(conflicts)
           processedGroupIDs == {c.GroupID : c \in handled}
           routed == RoutePatches(result, patches, processedGroupIDs, <<>>, EmptyMap)
       IN  \E order \in Orders(handled) :
              /\ directPatches' = routed.direct \o [i \in 1..Len(order) |-> BOMPatch(order[i])]
              /\ propertyPatches' = routed.props
    /\ pc' = "routed"
    /\ UNCHANGED <<project, patches, before, panicked, err, calls, result, rewriterVars,
                   analyzerVars, validated>>

----------------------------------------------------------------------------
(* Inputs of PatchStrategy *)

A3 == "json"
A4 == "json-path"
ABom == "netty-bom"

V9 == <<"9">>
V10 == <<"1", "0">>

\* the version string ${name}
PropRef(name) == <<"$", "{">> \o name \o <<"}">>

Literal(g, a) == DependencyInfo(g, a, <<"1">>, FALSE, <<>>, 0)

\* UsesProperty is set for ${} too, with an empty PropertyName
UsesProp(g, a, name) == DependencyInfo(g, a, PropRef(name), TRUE, name, 1)

StrategyKeys == {<<G1, A1>>, <<G1, A2>>, <<G2, A3>>, <<G2, A4>>}

\* what an analysis may hold for a dependency, when it holds it: two artifacts
\* of one group and one of another group may share the property p
InfoChoices(k) ==
    CASE k = <<G1, A1>> -> {Literal(G1, A1), UsesProp(G1, A1, <<"p">>)}
      [] k = <<G1, A2>> -> {UsesProp(G1, A2, <<"p">>)}
      [] k = <<G2, A3>> -> {UsesProp(G2, A3, <<"p">>), UsesProp(G2, A3, <<>>)}
      [] OTHER -> {}

\* Dependencies: from the key of each analysed dependency to its info
DependencyMaps ==
    UNION { {m \in [{DepKey(k[1], k[2]) : k \in ks} -> UNION {InfoChoices(k) : k \in ks}] :
                \A k \in ks : m[DepKey(k[1], k[2])] \in InfoChoices(k)} :
            ks \in SUBSET {k \in StrategyKeys : InfoChoices(k) # {}} }

BOM1 == BOMInfo(G1, ABom, <<"1">>, "pom", "import")

\* a BOM of the other group that passes for io.netty by its artifact name
BOM2 == BOMInfo(G2, ABom, <<"1">>, "pom", "import")

BOMLists == {<<>>, <<BOM1>>, <<BOM1, BOM2>>, <<BOM2, BOM1>>}

\* PropertyUsageCounts as analyzeDependency leaves them
UsageCounts(deps) ==
    [n \in {deps[k].PropertyName : k \in {k \in DOMAIN deps : deps[k].UsesProperty}} |->
        Cardinality({k \in DOMAIN deps : deps[k].UsesProperty /\ deps[k].PropertyName = n})]

AnalysisResults ==
    { AnalysisResult(deps, UsageCounts(deps), props, boms) :
        deps \in DependencyMaps, props \in Maps(ProjectPropNames, {<<"1">>}), boms \in BOMLists }

\* requested patches: one artifact at two versions, the others at one
StrategyPatchPool ==
    { Patch(G1, A1, V9, "import", "jar"),
      Patch(G1, A1, V10, "import", "jar"),
      Patch(G1, A2, V10, "compile", "jar"),
      Patch(G2, A3, V9, "import", "jar"),
      Patch(G2, A4, V10, "import", "jar") }

\* the lists a caller passes: no patch is listed twice with all fields equal,
\* one artifact may be listed at two versions
StrategyPatchLists ==
    {ps \in SeqsUpTo(StrategyPatchPool, MaxStrategyPatches) :
        \A i, j \in 1..Len(ps) : ps[i] = ps[j] => i = j}

InitStrategy ==
    /\ result \in AnalysisResults
    /\ patches \in StrategyPatchLists
    /\ directPatches = <<>>
    /\ propertyPatches = EmptyMap
    /\ project = NilProject
    /\ before = NilProject
    /\ panicked = FALSE
    /\ err = ""
    /\ calls = 0
    /\ pc = "strategy"
    /\ NoRewrite
    /\ NoAnalysis
    /\ NoValidation

NextStrategy == PatchStrategy

SpecStrategy == InitStrategy /\ [][NextStrategy]_vars

----------------------------------------------------------------------------
(* PreserveCommentsInPOMUpdate: the comment-preserving rewriter.            *)
(* A document is a sequence of lines.  The code looks at a line only       *)
(* through substring tests and three regular expressions, so a line is its *)
(* kind, the tag name the expressions find in it, and its remaining text:  *)
(*   decl          <?xml ... ?>                                            *)
(*   open          <tag>                  close      </tag>                *)
(*   leaf          <tag>text</tag>        self       <tag/>                *)
(*   comment       <!-- text -->          inline     <tag>x</tag> <!-- text --> *)
(*   commentStart  <!-- text              commentEnd     text -->          *)
(*   openInline    <tag> <!-- text -->                                     *)
(*   blank         an empty line                                           *)

Line(kind, tag, text) == [kind |-> kind, tag |-> tag, text |-> text]

\* strings.HasPrefix(trimmed, "<?xml") and strings.Contains(line, "<?xml")
IsXMLDeclaration(line) == line.kind = "decl"

\* strings.Contains(line, "<!--")
ContainsCommentOpen(line) == line.kind \in {"comment", "commentStart", "inline", "openInline"}

\* strings.Contains(line, "-->")
ContainsCommentClose(line) == line.kind \in {"comment", "commentEnd", "inline", "openInline"}

\* hasNonCommentContent: text before <!-- or after --> on the line
HasNonCommentContent(line) == line.kind \in {"inline", "openInline"}

\* the name openTagRe captures in the line, "" when it does not match
OpenTag(line) ==
    IF line.kind \in {"open", "leaf", "self", "inline", "openInline"} THEN line.tag ELSE ""

\* the name closeTagRe captures in the line, "" when it does not match
CloseTag(line) == IF line.kind \in {"close", "leaf", "inline"} THEN line.tag ELSE ""

\* selfClosingRe matches the line
SelfClosing(line) == line.kind = "self"

\* strings.Contains(line, "</project>")
ContainsProjectClose(line) == CloseTag(line) = "project"

\* strings.Contains(line, "<project")
ContainsProjectOpen(line) == OpenTag(line) = "project"

\* A path "/a/b" is the sequence <<"a", "b">>, the empty string is <<>>.
END_OF_FILE == <<"END_OF_FILE">>

CommentBlock(content, beforeXPath, afterXPath, lineNumber) ==
    [Content |-> content, BeforeXPath |-> beforeXPath, AfterXPath |-> afterXPath,
     LineNumber |-> lineNumber, IsInline |-> FALSE]

\* index (from 0) of the first line that holds </project>, -1 without one
ProjectCloseLineNum(lines) ==
    IF \E i \in 1..Len(lines) : ContainsProjectClose(lines[i])
    THEN (CHOOSE i \in 1..Len(lines) :
              /\ ContainsProjectClose(lines[i])
              /\ \A j \in 1..(i - 1) : ~ContainsProjectClose(lines[j])) - 1
    ELSE -1

\* the comment that ends on line i (from 1), with the context the code gives
\* it: END_OF_FILE behind the closing project tag, else the current path and,
\* looking one line ahead, the path of an element that starts there
ContextComment(lines, i, content, commentStartLine, currentPath, singleLine) ==
    IF ProjectCloseLineNum(lines) > 0 /\ commentStartLine > ProjectCloseLineNum(lines)
    THEN CommentBlock(content, <<>>, END_OF_FILE, commentStartLine)
    ELSE LET tagName == IF i + 1 <= Len(lines) THEN OpenTag(lines[i + 1]) ELSE ""
             beforeXPath ==
                 IF tagName # "" /\ ~(singleLine /\ tagName = "relativePath")
                 THEN Append(currentPath, tagName)
                 ELSE <<>>
         IN  CommentBlock(content, beforeXPath, currentPath, commentStartLine)

ExtractInit ==
    [inComment |-> FALSE, currentComment |-> <<>>, commentStartLine |-> 0,
     currentPath |-> <<>>, foundXMLDeclaration |-> FALSE,
     preXMLComments |-> <<>>, comments |-> <<>>]

\* a finished comment goes to preXMLComments before any declaration was seen
FinishComment(st, lines, i, content, commentStartLine, singleLine) ==
    IF ~st.foundXMLDeclaration
    THEN [st EXCEPT !.inComment = FALSE, !.currentComment = <<>>,
                    !.preXMLComments =
                        Append(@, CommentBlock(content, <<>>, <<>>, commentStartLine))]
    ELSE [st EXCEPT !.inComment = FALSE, !.currentComment = <<>>,
                    !.comments =
                        Append(@, ContextComment(lines, i, content, commentStartLine,
                                                 st.currentPath, singleLine))]

\* one turn of the loop over the lines of the original file
ExtractLine(st0, lines, i) ==
    LET line == lines[i]
        st == [st0 EXCEPT !.foundXMLDeclaration = @ \/ IsXMLDeclaration(line)]
    IN  IF ContainsCommentOpen(line)
        THEN IF ContainsCommentClose(line)
             THEN IF HasNonCommentContent(line)
                  THEN [st EXCEPT !.inComment = FALSE, !.currentComment = <<>>,
                                  !.commentStartLine = i - 1]
                  ELSE FinishComment([st EXCEPT !.commentStartLine = i - 1],
                                     lines, i, <<line>>, i - 1, TRUE)
             ELSE [st EXCEPT !.inComment = TRUE, !.commentStartLine = i - 1,
                             !.currentComment = <<line>>]
        ELSE IF st.inComment
        THEN IF ContainsCommentClose(line)
             THEN FinishComment(st, lines, i, Append(st.currentComment, line),
                                st.commentStartLine, FALSE)
             ELSE [st EXCEPT !.currentComment = Append(@, line)]
        ELSE IF SelfClosing(line)
        THEN st
        ELSE LET pushed == IF OpenTag(line) # ""
                           THEN Append(st.currentPath, OpenTag(line))
                           ELSE st.currentPath
                 popped == IF /\ CloseTag(line) # ""
                              /\ Len(pushed) > 0
                              /\ pushed[Len(pushed)] = CloseTag(line)
                           THEN SubSeq(pushed, 1, Len(pushed) - 1)
                           ELSE pushed
             IN  [st EXCEPT !.currentPath = popped]

RECURSIVE ExtractFrom(_, _, _)
ExtractFrom(st, lines, i) ==
    IF i > Len(lines) THEN st ELSE ExtractFrom(ExtractLine(st, lines, i), lines, i + 1)

\* extractAllComments: the pre-declaration comments, then the others
ExtractAllComments(lines) ==
    LET st == ExtractFrom(ExtractInit, lines, 1)
    IN  st.preXMLComments \o st.comments

\* the Content of the blocks, one after the other
RECURSIVE Contents(_)
Contents(blocks) ==
    IF blocks = <<>> THEN <<>> ELSE Head(blocks).Content \o Contents(Tail(blocks))

LineNumbers(blocks) == [k \in 1..Len(blocks) |-> blocks[k].LineNumber]

IsPreXML(comment) == comment.BeforeXPath = <<>> /\ comment.AfterXPath = <<>>

IsEndOfFile(comment) == ~IsPreXML(comment) /\ comment.AfterXPath = END_OF_FILE

IsRegular(comment) == ~IsPreXML(comment) /\ ~IsEndOfFile(comment)

\* strings.Contains(path, "/project/"): project with an element below it
ContainsProjectSlash(path) == \E k \in 1..(Len(path) - 1) : path[k] = "project"

\* (mutant) the first comment whose BeforeXPath is the path, inserted or not
FirstMatching(regularComments, inserted, path) ==
    LET candidates == {k \in 1..Len(regularComments) :
                          /\ regularComments[k].BeforeXPath = path
                          /\ ~regularComments[k].IsInline}
    IN  IF candidates = {} THEN 0
        ELSE CHOOSE k \in candidates : \A l \in candidates : k <= l

\* the first comment not yet inserted whose BeforeXPath is the path, 0 if none
FirstUninserted(regularComments, inserted, path) ==
    LET candidates == {k \in 1..Len(regularComments) :
                          /\ k \notin inserted
                          /\ regularComments[k].BeforeXPath = path
                          /\ ~regularComments[k].IsInline}
    IN  IF candidates = {} THEN 0
        ELSE CHOOSE k \in candidates : \A l \in candidates : k <= l

\* the comments written behind the <project line, in their order
ProjectLevel(regularComments, inserted) ==
    {k \in 1..Len(regularComments) :
        /\ k \notin inserted
        /\ regularComments[k].AfterXPath = <<"project">>
        /\ ~ContainsProjectSlash(regularComments[k].BeforeXPath)}

\* one turn of the main loop of insertComments over the lines of the output
InsertLine(st, regularComments, line) ==
    LET tagName == OpenTag(line)
        anchored == tagName # ""
        currentFullPath == Append(st.currentPath, tagName)
        k == IF anchored
             THEN FirstUninserted(regularComments, st.inserted, currentFullPath)
             ELSE 0
        withComment ==
            IF k = 0 THEN st
            ELSE [st EXCEPT !.result = @ \o regularComments[k].Content,
                            !.emitted = Append(@, regularComments[k].LineNumber),
                            !.inserted = @ \cup {k}]
        pushed == IF anchored /\ ~SelfClosing(line)
                  THEN Append(st.currentPath, tagName) ELSE st.currentPath
        withLine == [withComment EXCEPT !.result = Append(@, line)]
        level == IF ContainsProjectOpen(line)
                 THEN ProjectLevel(regularComments, withLine.inserted) ELSE {}
        levelBlocks == SelectSeq(regularComments,
                                 LAMBDA c : c \in {regularComments[k2] : k2 \in level})
        withLevel == [withLine EXCEPT !.result = @ \o Contents(levelBlocks),
                                      !.emitted = @ \o LineNumbers(levelBlocks),
                                      !.inserted = @ \cup level]
        popped == IF /\ CloseTag(line) # ""
                     /\ Len(pushed) > 0
                     /\ pushed[Len(pushed)] = CloseTag(line)
                  THEN SubSeq(pushed, 1, Len(pushed) - 1)
                  ELSE pushed
    IN  [withLevel EXCEPT !.currentPath = popped]

RECURSIVE InsertFrom(_, _, _, _)
InsertFrom(st, regularComments, lines, i) ==
    IF i > Len(lines) THEN st
    ELSE InsertFrom(InsertLine(st, regularComments, lines[i]), regularComments, lines, i + 1)

\* index (from 1) of the first line of the output that holds <?xml, 0 if none
XMLDeclarationLine(lines) ==
    IF \E i \in 1..Len(lines) : IsXMLDeclaration(lines[i])
    THEN CHOOSE i \in 1..Len(lines) :
             /\ IsXMLDeclaration(lines[i])
             /\ \A j \in 1..(i - 1) : ~IsXMLDeclaration(lines[j])
    ELSE 0

\* insertComments: the lines of the merged document and, as a record of what
\* was written, the LineNumber of each block in the order of writing
InsertComments(output, comments) ==
    IF comments = <<>> THEN Bytes(output, <<>>)
    ELSE LET preXMLComments == SelectSeq(comments, IsPreXML)
             endOfFileComments == SelectSeq(comments, IsEndOfFile)
             regularComments == SelectSeq(comments, IsRegular)
             decl == XMLDeclarationLine(output)
             lines == IF decl = 0 THEN output ELSE SubSeq(output, decl, Len(output))
             st0 == [result |-> Contents(preXMLComments),
                     emitted |-> LineNumbers(preXMLComments),
                     currentPath |-> <<>>, inserted |-> {}]
             st == InsertFrom(st0, regularComments, lines, 1)
         IN  Bytes(st.result \o Contents(endOfFileComments),
                   st.emitted \o LineNumbers(endOfFileComments))

\* A path is the sequence of its characters; NUL stands for the byte 0.
RECURSIVE SplitPath(_, _)
\* strings split at "/": the segments of the path, current being the one open
SplitPath(path, current) ==
    IF path = <<>> THEN <<current>>
    ELSE IF Head(path) = "/" THEN <<current>> \o SplitPath(Tail(path), <<>>)
    ELSE SplitPath(Tail(path), Append(current, Head(path)))

RECURSIVE CleanSegments(_, _, _)
\* filepath.Clean's walk: empty and "." segments vanish, ".." removes the
\* segment before it, is dropped at the root and kept in front otherwise
CleanSegments(segments, out, rooted) ==
    IF segments = <<>> THEN out
    ELSE LET seg == Head(segments)
             rest == Tail(segments)
         IN  IF seg = <<>> \/ seg = <<".">> THEN CleanSegments(rest, out, rooted)
             ELSE IF seg = <<".", ".">>
             THEN IF Len(out) > 0 /\ out[Len(out)] # <<".", ".">>
                  THEN CleanSegments(rest, SubSeq(out, 1, Len(out) - 1), rooted)
                  ELSE IF rooted THEN CleanSegments(rest, out, rooted)
                  ELSE CleanSegments(rest, Append(out, seg), rooted)
             ELSE CleanSegments(rest, Append(out, seg), rooted)

RECURSIVE JoinPath(_)
JoinPath(segments) ==
    IF segments = <<>> THEN <<>>
    ELSE IF Len(segments) = 1 THEN segments[1]
    ELSE segments[1] \o <<"/">> \o JoinPath(Tail(segments))

\* filepath.Clean
Clean(path) ==
    IF path = <<>> THEN <<".">>
    ELSE LET rooted == Head(path) = "/"
             joined == JoinPath(CleanSegments(SplitPath(path, <<>>), <<>>, rooted))
             cleaned == IF rooted THEN <<"/">> \o joined ELSE joined
         IN  IF cleaned = <<>> THEN <<".">> ELSE cleaned

\* the white space of the paths here: blank, tab, line feed
WhiteSpace == {" ", "\t", "\n"}

RECURSIVE TrimLeft(_)
TrimLeft(str) == IF str # <<>> /\ Head(str) \in WhiteSpace THEN TrimLeft(Tail(str)) ELSE str

RECURSIVE TrimRight(_)
TrimRight(str) ==
    IF str # <<>> /\ str[Len(str)] \in WhiteSpace THEN TrimRight(SubSeq(str, 1, Len(str) - 1)) ELSE str

\* strings.TrimSpace
TrimSpace(str) == TrimRight(TrimLeft(str))

\* strings.Contains(str, "..")
ContainsDotDot(str) == \E i \in 1..(Len(str) - 1) : str[i] = "." /\ str[i + 1] = "."

\* (mutant) the validator without its traversal check
ValidateFilePathNoTraversal(path) ==
    IF path = <<>> THEN "file path cannot be empty"
    ELSE IF TrimSpace(path) = <<>> THEN "file path cannot be empty or whitespace only"
    ELSE IF \E i \in 1..Len(path) : path[i] = "NUL" THEN "null byte in path"
    ELSE ""

\* ValidateFilePath: the error it returns, "" for nil
ValidateFilePath(path) ==
    IF path = <<>> THEN "file path cannot be empty"
    ELSE IF TrimSpace(path) = <<>> THEN "file path cannot be empty or whitespace only"
    ELSE IF ContainsDotDot(TrimSpace(path)) THEN "invalid path pattern"
    ELSE IF \E i \in 1..Len(TrimSpace(path)) : TrimSpace(path)[i] = "NUL" THEN "null byte in path"
    ELSE ""

\* PreserveCommentsInPOMUpdate(inputPath, outputContent)
PreserveCommentsInPOMUpdate ==
    /\ pc = "preserve"
    /\ pc' = "preserved"
    /\ LET cleanPath == Clean(inputPath)
       IN  IF ValidateFilePath(cleanPath) # ""
           THEN /\ err' = "invalid file path"
                /\ merged' = NoBytes
                /\ opened' = FALSE
           ELSE IF fileKind = "missing"
           THEN /\ err' = "failed to stat file"
                /\ merged' = NoBytes
                /\ opened' = FALSE
           ELSE IF fileKind = "large"
           THEN /\ err' = "file too large"
                /\ merged' = NoBytes
                /\ opened' = FALSE
           ELSE IF fileKind = "unreadable"
           THEN /\ err' = "open failed"
                /\ merged' = NoBytes
                /\ opened' = FALSE
           ELSE IF fileKind = "directory"
           THEN /\ err' = "error reading file"
                /\ merged' = NoBytes
                /\ opened' = TRUE
           ELSE /\ err' = ""
                /\ opened' = TRUE
                /\ merged' = IF outputContent = <<>> THEN Bytes(<<>>, <<>>)
                             ELSE InsertComments(outputContent, ExtractAllComments(original))
    /\ UNCHANGED <<project, patches, propertyPatches, before, panicked, calls, result,
                   directPatches, inputPath, fileKind, original, outputContent, analyzerVars, validated>>

----------------------------------------------------------------------------
(* Inputs of PreserveCommentsInPOMUpdate *)

\* a serialized project with a section of two sibling elements
Skeleton ==
    << Line("decl", "", "xml"),
       Line("open", "project", ""),
       Line("open", "modules", ""),
       Line("leaf", "module", "a"),
       Line("leaf", "module", "b"),
       Line("close", "modules", ""),
       Line("close", "project", "") >>

\* the k-th comment of a file, on one line or on two
CommentLines(k, form) ==
    LET text == <<"c1", "c2", "c3">>[k]
    IN  IF form = "single" THEN <<Line("comment", "", text)>>
        ELSE <<Line("commentStart", "", text), Line("commentEnd", "", text)>>

\* where the comments of a file stand: comment k in front of skeleton line
\* gap + 1 (gap = Len(Skeleton): behind the last line), in document order
Placements ==
    {pl \in SeqsUpTo([gap : 0..Len(Skeleton), form : {"single", "multi"}], MaxComments) :
        \A k \in 1..(Len(pl) - 1) : pl[k].gap <= pl[k + 1].gap}

RECURSIVE CommentsAt(_, _, _)
CommentsAt(pl, gap, k) ==
    IF k > Len(pl) THEN <<>>
    ELSE (IF pl[k].gap = gap THEN CommentLines(k, pl[k].form) ELSE <<>>)
         \o CommentsAt(pl, gap, k + 1)

RECURSIVE CommentsInto(_, _, _)
\* the lines of base from line gap + 1 on, with the comments placed from there on
CommentsInto(base, pl, gap) ==
    CommentsAt(pl, gap, 1)
    \o (IF gap >= Len(base) THEN <<>>
        ELSE <<base[gap + 1]>> \o CommentsInto(base, pl, gap + 1))

\* the skeleton with the comments placed
WithComments(pl, gap) == CommentsInto(Skeleton, pl, gap)

\* the skeleton with a comment behind the opening tag of the section
SkeletonInline ==
    SubSeq(Skeleton, 1, 2) \o <<Line("openInline", "modules", "c0")>> \o SubSeq(Skeleton, 4, 7)

\* the skeleton without the <?xml line
SkeletonNoDeclaration == Tail(Skeleton)

Originals ==
    {CommentsInto(base, pl, 0) :
        base \in {Skeleton, SkeletonInline, SkeletonNoDeclaration}, pl \in Placements}

\* what the serializer may hand over: the same elements; no declaration; one
\* more sibling; the section gone; the section self-closing; a line in front
\* of the declaration; a document that holds a comment itself; nothing
NewDocuments ==
    { Skeleton,
      Tail(Skeleton),
      SubSeq(Skeleton, 1, 5) \o <<Line("leaf", "module", "c")>> \o SubSeq(Skeleton, 6, 7),
      SubSeq(Skeleton, 1, 2) \o SubSeq(Skeleton, 7, 7),
      SubSeq(Skeleton, 1, 2) \o <<Line("self", "modules", "")>> \o SubSeq(Skeleton, 7, 7),
      <<Line("blank", "", "")>> \o Skeleton,
      SubSeq(Skeleton, 1, 2) \o <<Line("comment", "", "c1")>> \o SubSeq(Skeleton, 3, 7),
      <<>> }

\* path segments: a name, the current and the parent directory, nothing (as
\* in "/a" and "a//b"), a blank, a name that holds two dots, the byte 0
Segments == {<<"a">>, <<".">>, <<".", ".">>, <<>>, <<" ">>, <<".", ".", "a">>, <<"NUL">>}

Paths == {JoinPath(segments) : segments \in SeqsUpTo(Segments, MaxSegments)}

FileKinds == {"file", "directory", "missing", "large", "unreadable"}

\* either the path varies over one file, or the documents vary at one path;
\* the current directory and the root are directories
InitRewrite ==
    /\ \/ /\ inputPath \in Paths
          /\ fileKind \in FileKinds
          /\ Clean(inputPath) \in {<<".">>, <<"/">>} => fileKind = "directory"
          /\ original = WithComments(<<[gap |-> 3, form |-> "single"]>>, 0)
          /\ outputContent = Skeleton
       \/ /\ inputPath = <<"a">>
          /\ fileKind = "file"
          /\ original \in Originals
          /\ outputContent \in NewDocuments
    /\ merged = NoBytes
    /\ opened = FALSE
    /\ project = NilProject
    /\ before = NilProject
    /\ patches = <<>>
    /\ propertyPatches = EmptyMap
    /\ panicked = FALSE
    /\ err = ""
    /\ calls = 0
    /\ result = EmptyResult
    /\ directPatches = <<>>
    /\ pc = "preserve"
    /\ NoAnalysis
    /\ NoValidation

NextRewrite == PreserveCommentsInPOMUpdate

SpecRewrite == InitRewrite /\ [][NextRewrite]_vars

----------------------------------------------------------------------------
(* AnalyzeProject and AnalyzeProjectPath *)

\* strings.HasPrefix(version, "${") && strings.HasSuffix(version, "}")
IsPropertyReference(version) ==
    /\ Len(version) >= 2
    /\ version[1] = "$"
    /\ version[2] = "{"
    /\ version[Len(version)] = "}"

\* strings.TrimSuffix(strings.TrimPrefix(version, "${"), "}")
TrimReference(version) == SubSeq(version, 3, Len(version) - 1)

\* m[k] = v on a Go map
MapSet(m, k, v) == [x \in DOMAIN m \cup {k} |-> IF x = k THEN v ELSE m[x]]

\* m[k] on a map[string]int: 0 for a key that is not there
CountOf(m, k) == IF k \in DOMAIN m THEN m[k] ELSE 0

\* analyzeDependency
AnalyzeDependency(res, dep) ==
    LET depKey == DepKey(dep.groupId, dep.artifactId)
    IN  IF IsPropertyReference(dep.version)
        THEN LET propertyName == TrimReference(dep.version)
                 count == CountOf(res.PropertyUsageCounts, propertyName) + 1
             IN  [res EXCEPT !.PropertyUsageCounts = MapSet(@, propertyName, count),
                             !.Dependencies =
                                 MapSet(@, depKey,
                                        DependencyInfo(dep.groupId, dep.artifactId, dep.version,
                                                       TRUE, propertyName, count))]
        ELSE [res EXCEPT !.Dependencies =
                 MapSet(@, depKey, DependencyInfo(dep.groupId, dep.artifactId, dep.version,
                                                  FALSE, <<>>, 0))]

\* (mutant) a BOM import is recognised by its scope alone
IsImportScope(dep) == dep.scope = "import"

\* isBOMImport
IsBOMImport(dep) == dep.scope = "import" /\ dep.type = "pom"

RECURSIVE AnalyzeDependencies(_, _)
\* the loop over project.Dependencies
AnalyzeDependencies(res, deps) ==
    IF deps = <<>> THEN res
    ELSE AnalyzeDependencies(AnalyzeDependency(res, Head(deps)), Tail(deps))

RECURSIVE AnalyzeManagedDependencies(_, _)
\* the loop over project.DependencyManagement.Dependencies
AnalyzeManagedDependencies(res, deps) ==
    IF deps = <<>> THEN res
    ELSE LET dep == Head(deps)
             next == IF IsBOMImport(dep)
                     THEN [res EXCEPT !.BOMs =
                              Append(@, BOMInfo(dep.groupId, dep.artifactId, dep.version,
                                                dep.type, dep.scope))]
                     ELSE AnalyzeDependency(res, dep)
         IN  AnalyzeManagedDependencies(next, Tail(deps))

\* extractPropertiesFromProject
ExtractPropertiesFromProject(proj) ==
    IF ~proj.isNil /\ proj.propsPresent THEN proj.props ELSE EmptyMap

\* the result AnalyzeProject builds for a project that is not nil
Analysis(proj) ==
    LET r0 == AnalysisResult(EmptyMap, EmptyMap, ExtractPropertiesFromProject(proj), <<>>)
        r1 == IF proj.depsPresent THEN AnalyzeDependencies(r0, proj.deps) ELSE r0
    IN  IF proj.dmPresent /\ proj.dmDepsPresent
        THEN AnalyzeManagedDependencies(r1, proj.dmDeps)
        ELSE r1

\* GetAffectedDependencies: the keys of the entries it returns
GetAffectedDependencies(res, propertyName) ==
    {k \in DOMAIN res.Dependencies :
        res.Dependencies[k].UsesProperty /\ res.Dependencies[k].PropertyName = propertyName}

\* (mutant) a nil project is analysed as an empty one
AnalyzeProjectNilAccepted ==
    /\ pc = "analyze"
    /\ pc' = "analyzed"
    /\ err' = ""
    /\ returned' = "value"
    /\ result' = IF project.isNil THEN EmptyResult ELSE Analysis(project)
    /\ UNCHANGED <<project, patches, propertyPatches, before, panicked, calls, directPatches,
                   rewriterVars, pomFiles, validated>>

\* AnalyzeProject(ctx, project)
AnalyzeProject ==
    /\ pc = "analyze"
    /\ pc' = "analyzed"
    /\ IF project.isNil
       THEN /\ err' = "project is nil"
            /\ returned' = "nil"
            /\ UNCHANGED result
       ELSE /\ err' = ""
            /\ returned' = "value"
            /\ result' = Analysis(project)
    /\ UNCHANGED <<project, patches, propertyPatches, before, panicked, calls, directPatches,
                   rewriterVars, pomFiles, validated>>

\* a file of the project tree as the walk meets it
PomFile(xml, excluded, parses, dirs, props) ==
    [xml |-> xml,            \* its name ends in .xml
     excluded |-> excluded,  \* it is the file being analysed
     parses |-> parses,      \* gopom.Parse accepts it
     dirs |-> dirs,          \* the names of the directories from the project
                             \* root, the root being the first, down to the file
     props |-> props]        \* the properties it defines

\* strings.HasPrefix
HasPrefix(str, prefix) == Len(str) >= Len(prefix) /\ SubSeq(str, 1, Len(prefix)) = prefix

\* (mutant) hidden directories are walked
isSkippableDirectoryNotHidden(name) ==
    \/ name = <<"t", "a", "r", "g", "e", "t">>
    \/ name = <<"n", "o", "d", "e", "_", "m", "o", "d", "u", "l", "e", "s">>
    \/ name = <<"b", "u", "i", "l", "d">>
    \/ name = <<"d", "i", "s", "t">>
    \/ name = <<"o", "u", "t">>

isSkippableDirectory(name) ==
    \/ HasPrefix(name, <<".">>)
    \/ name = <<"t", "a", "r", "g", "e", "t">>
    \/ name = <<"n", "o", "d", "e", "_", "m", "o", "d", "u", "l", "e", "s">>
    \/ name = <<"b", "u", "i", "l", "d">>
    \/ name = <<"d", "i", "s", "t">>
    \/ name = <<"o", "u", "t">>

\* filepath.Walk does not descend into a directory for which the callback
\* returns SkipDir: the file is not met when one of its directories, the
\* root included, is skippable
Pruned(file) == \E k \in 1..Len(file.dirs) : isSkippableDirectory(file.dirs[k])

\* (mutant) a later file overwrites what an earlier one defined
MergePropertiesLastWins(target, source) ==
    [k \in DOMAIN target \cup DOMAIN source |->
        IF k \in DOMAIN source THEN source[k] ELSE target[k]]

\* mergeProperties: a key of the source is copied unless the target has it
MergeProperties(target, source) ==
    [k \in DOMAIN target \cup DOMAIN source |->
        IF k \in DOMAIN target THEN target[k] ELSE source[k]]

RECURSIVE SearchForProperties(_, _)
\* searchForProperties: the walk over the project tree
SearchForProperties(files, properties) ==
    IF files = <<>> THEN properties
    ELSE LET file == Head(files)
         IN  IF Pruned(file) \/ ~file.xml \/ file.excluded \/ ~file.parses
             THEN SearchForProperties(Tail(files), properties)
             ELSE SearchForProperties(Tail(files), MergeProperties(properties, file.props))

\* AnalyzeProjectPath(ctx, pomPath); gopom.Parse returns no project for a
\* file that is not a POM
AnalyzeProjectPath ==
    /\ pc = "analyzePath"
    /\ pc' = "analyzedPath"
    /\ IF project.isNil
       THEN /\ err' = "failed to parse POM file"
            /\ returned' = "nil"
            /\ UNCHANGED result
       ELSE /\ err' = ""
            /\ returned' = "value"
            /\ result' = [Analysis(project) EXCEPT !.Properties =
                             MergeProperties(@, SearchForProperties(pomFiles, EmptyMap))]
    /\ UNCHANGED <<project, patches, propertyPatches, before, panicked, calls, directPatches,
                   rewriterVars, pomFiles, validated>>

----------------------------------------------------------------------------
(* Inputs of AnalyzeProject and AnalyzeProjectPath *)

\* version strings: a literal; references to p, to q and to nothing; two
\* references in a row and with text between; text behind and in front of a
\* reference; a range
AnalyzedVersions ==
    { <<"1">>,
      PropRef(<<"p">>),
      PropRef(<<"q">>),
      PropRef(<<>>),
      PropRef(<<"p">>) \o PropRef(<<"q">>),
      PropRef(<<"p">>) \o <<".">> \o PropRef(<<"q">>),
      PropRef(<<"p">>) \o <<"1">>,
      <<"1">> \o PropRef(<<"p">>),
      <<"[", "1", ",", "2", ")">> }

\* one artifact at every version, a second one as a literal and as a
\* reference, and one at every scope and type
AnalyzedPool ==
    { Dependency(G1, A1, v, "compile", "jar") : v \in AnalyzedVersions }
    \cup { Dependency(G1, A2, v, "compile", "jar") : v \in {<<"1">>, PropRef(<<"p">>)} }
    \cup { Dependency(G1, ABom, <<"1">>, scope, type) :
              scope \in {"import", "compile"}, type \in {"pom", "jar"} }

\* the entries of a project in the order of the file, each in the
\* dependencies or in the dependencyManagement section
AnalyzedEntries == SeqsUpTo([dep : AnalyzedPool, managed : BOOLEAN], MaxAnalyzed)

IsManaged(entry) == entry.managed

IsDirect(entry) == ~entry.managed

DepsOf(entries) == [k \in 1..Len(entries) |-> entries[k].dep]

\* projects whose sections hold the entries, a section being absent when it
\* holds nothing; a nil project; and a project whose dependencyManagement
\* holds no dependencies list
AnalyzedProjects ==
    { LET deps == DepsOf(SelectSeq(entries, IsDirect))
          dmDeps == DepsOf(SelectSeq(entries, IsManaged))
      IN  Project(FALSE, deps # <<>>, deps, dmDeps # <<>>, dmDeps # <<>>, dmDeps,
                  props # EmptyMap, props) :
        entries \in AnalyzedEntries, props \in Maps(ProjectPropNames, {"old"}) }
    \cup { NilProject,
           Project(FALSE, FALSE, <<>>, TRUE, FALSE, <<>>, TRUE, EmptyMap) }

InitAnalyze ==
    /\ project \in AnalyzedProjects
    /\ pomFiles = <<>>
    /\ returned = "none"
    /\ before = project
    /\ patches = <<>>
    /\ propertyPatches = EmptyMap
    /\ panicked = FALSE
    /\ err = ""
    /\ calls = 0
    /\ result = EmptyResult
    /\ directPatches = <<>>
    /\ pc = "analyze"
    /\ NoRewrite
    /\ NoValidation

NextAnalyze == AnalyzeProject

SpecAnalyze == InitAnalyze /\ [][NextAnalyze]_vars

\* the project root: an ordinary directory, or one named like a build directory
RootNames == {<<"p", "r", "o", "j">>, <<"o", "u", "t">>}

\* directories below the root: src, .git, target, node_modules, build, dist,
\* out, targets, src/target and target/classes
Directories ==
    { <<<<"s", "r", "c">>>>, <<<<".", "g", "i", "t">>>>, <<<<"t", "a", "r", "g", "e", "t">>>>, <<<<"n", "o", "d", "e", "_", "m", "o", "d", "u", "l", "e", "s">>>>, <<<<"b", "u", "i", "l", "d">>>>, <<<<"d", "i", "s", "t">>>>, <<<<"o", "u", "t">>>>, <<<<"t", "a", "r", "g", "e", "t", "s">>>>,
      <<<<"s", "r", "c">>, <<"t", "a", "r", "g", "e", "t">>>>, <<<<"t", "a", "r", "g", "e", "t">>, <<"c", "l", "a", "s", "s", "e", "s">>>> }

\* the files the walk may meet: POMs that define p or q, with one value or
\* another, among files that are skipped for one reason or another
PomFilePool ==
    UNION {
        { PomFile(TRUE, FALSE, TRUE, <<root>>, props) : props \in Maps(PropNames, {"one", "two"}) }
        \cup { PomFile(FALSE, FALSE, TRUE, <<root>>, [n \in PropNames |-> "other"]),
               PomFile(TRUE, TRUE, TRUE, <<root>>, [n \in PropNames |-> "other"]),
               PomFile(TRUE, FALSE, FALSE, <<root>>, EmptyMap) }
        \cup { PomFile(TRUE, FALSE, TRUE, <<root>> \o dirs, [n \in PropNames |-> "deep"]) :
                   dirs \in Directories }
        : root \in RootNames }

\* the primary POM with or without the property p; a file that does not parse
PrimaryProjects ==
    { Project(FALSE, FALSE, <<>>, FALSE, FALSE, <<>>, props # EmptyMap, props) :
        props \in Maps(ProjectPropNames, {"old"}) }
    \cup {NilProject}

InitAnalyzePath ==
    /\ project \in PrimaryProjects
    /\ pomFiles \in SeqsUpTo(PomFilePool, MaxPomFiles)
    /\ \A i, j \in 1..Len(pomFiles) : pomFiles[i].dirs[1] = pomFiles[j].dirs[1]
    /\ returned = "none"
    /\ before = project
    /\ patches = <<>>
    /\ propertyPatches = EmptyMap
    /\ panicked = FALSE
    /\ err = ""
    /\ calls = 0
    /\ result = EmptyResult
    /\ directPatches = <<>>
    /\ pc = "analyzePath"
    /\ NoRewrite
    /\ NoValidation

NextAnalyzePath == AnalyzeProjectPath

SpecAnalyzePath == InitAnalyzePath /\ [][NextAnalyzePath]_vars

----------------------------------------------------------------------------
(* ValidatePatch, ValidatePropertyPatch and ValidateFilePath (pkg/validation.go) *)

\* The validators look into their strings, so a coordinate, a property name, a
\* value and a type are sequences of characters here. "EACUTE" stands for a
\* letter outside ASCII, which UTF-8 encodes in two bytes; Go's len counts bytes.

maxGroupIDLength == 256
maxArtifactIDLength == 256
maxVersionLength == 128
maxPropertyLength == 256
maxValueLength == 1024
maxTypeLength == 64

LowerCase ==
    <<"a", "b", "c", "d", "e", "f", "g", "h", "i", "j", "k", "l", "m",
      "n", "o", "p", "q", "r", "s", "t", "u", "v", "w", "x", "y", "z">>

UpperCase ==
    <<"A", "B", "C", "D", "E", "F", "G", "H", "I", "J", "K", "L", "M",
      "N", "O", "P", "Q", "R", "S", "T", "U", "V", "W", "X", "Y", "Z">>

Digits == {"0", "1", "2", "3", "4", "5", "6", "7", "8", "9"}

\* the class [a-zA-Z0-9._-]
IdentifierClass == Range(LowerCase) \cup Range(UpperCase) \cup Digits \cup {".", "_", "-"}

\* the class [a-zA-Z0-9._\-+\[\],!()]
VersionClass == IdentifierClass \cup {"+", "[", "]", ",", "!", "(", ")"}

\* regexp ^[class]+$ : Go's $ matches at the end of the text only
MatchString(class, str) == str # <<>> /\ \A i \in 1..Len(str) : str[i] \in class

groupIDArtifactIDRegex(str) == MatchString(IdentifierClass, str)

versionRegex(str) == MatchString(VersionClass, str)

propertyNameRegex(str) == MatchString(IdentifierClass, str)

typeRegex(str) == MatchString(IdentifierClass, str)

\* Go's len(str): the number of bytes
ByteLen(str) == Len(str) + Cardinality({i \in 1..Len(str) : str[i] = "EACUTE"})

validScopes == {"compile", "provided", "runtime", "test", "system", "import"}

\* (mutant) the validator without the length limit of the type
ValidatePatchAnyTypeLength(patch) ==
    IF ByteLen(patch.groupId) = 0 THEN "groupId cannot be empty"
    ELSE IF ByteLen(patch.groupId) > maxGroupIDLength THEN "groupId too long"
    ELSE IF ~groupIDArtifactIDRegex(patch.groupId) THEN "groupId contains invalid characters"
    ELSE IF ByteLen(patch.artifactId) = 0 THEN "artifactId cannot be empty"
    ELSE IF ByteLen(patch.artifactId) > maxArtifactIDLength THEN "artifactId too long"
    ELSE IF ~groupIDArtifactIDRegex(patch.artifactId) THEN "artifactId contains invalid characters"
    ELSE IF ByteLen(patch.version) = 0 THEN "version cannot be empty"
    ELSE IF ByteLen(patch.version) > maxVersionLength THEN "version too long"
    ELSE IF ~versionRegex(patch.version) THEN "version contains invalid characters"
    ELSE IF patch.scope # "" /\ patch.scope \notin validScopes THEN "invalid scope"
    ELSE IF patch.type # <<>> /\ ~typeRegex(patch.type) THEN "type contains invalid characters"
    ELSE ""

\* ValidatePatch: the error it returns, "" for nil
ValidatePatch(patch) ==
    IF ByteLen(patch.groupId) = 0 THEN "groupId cannot be empty"
    ELSE IF ByteLen(patch.groupId) > maxGroupIDLength THEN "groupId too long"
    ELSE IF ~groupIDArtifactIDRegex(patch.groupId) THEN "groupId contains invalid characters"
    ELSE IF ByteLen(patch.artifactId) = 0 THEN "artifactId cannot be empty"
    ELSE IF ByteLen(patch.artifactId) > maxArtifactIDLength THEN "artifactId too long"
    ELSE IF ~groupIDArtifactIDRegex(patch.artifactId) THEN "artifactId contains invalid characters"
    ELSE IF ByteLen(patch.version) = 0 THEN "version cannot be empty"
    ELSE IF ByteLen(patch.version) > maxVersionLength THEN "version too long"
    ELSE IF ~versionRegex(patch.version) THEN "version contains invalid characters"
    ELSE IF patch.scope # "" /\ patch.scope \notin validScopes THEN "invalid scope"
    ELSE IF patch.type # <<>> /\ ~typeRegex(patch.type) THEN "type contains invalid characters"
    ELSE IF patch.type # <<>> /\ ByteLen(patch.type) > maxTypeLength THEN "type too long"
    ELSE ""

\* strings.ToLower on one character
ToLowerChar(c) ==
    IF \E i \in 1..Len(UpperCase) : UpperCase[i] = c
    THEN LowerCase[CHOOSE i \in 1..Len(UpperCase) : UpperCase[i] = c]
    ELSE c

\* strings.ToLower
ToLower(str) == [i \in 1..Len(str) |-> ToLowerChar(str[i])]

\* strings.Contains
Contains(str, substr) ==
    \E i \in 0..(Len(str) - Len(substr)) : SubSeq(str, i + 1, i + Len(substr)) = substr

dangerous ==
    << <<"<", "!", "E", "N", "T", "I", "T", "Y">>,
       <<"<", "!", "D", "O", "C", "T", "Y", "P", "E">>,
       <<"<", "!", "[", "C", "D", "A", "T", "A", "[">>,
       <<"<", "?", "x", "m", "l">>,
       <<"<", "s", "c", "r", "i", "p", "t">>,
       <<"j", "a", "v", "a", "s", "c", "r", "i", "p", "t", ":">>,
       <<"o", "n", "e", "r", "r", "o", "r", "=">>,
       <<"o", "n", "c", "l", "i", "c", "k", "=">> >>

\* (mutant) the denylist compared without folding the letter case
containsXMLInjectionCaseSensitive(str) ==
    \/ \E d \in 1..Len(dangerous) : Contains(str, dangerous[d])
    \/ Contains(str, <<"<">>) /\ Contains(str, <<">">>)

containsXMLInjection(str) ==
    \/ \E d \in 1..Len(dangerous) : Contains(ToLower(str), ToLower(dangerous[d]))
    \/ Contains(str, <<"<">>) /\ Contains(str, <<">">>)

\* ValidatePropertyPatch: the error it returns, "" for nil
ValidatePropertyPatch(property, value) ==
    IF ByteLen(property) = 0 THEN "property name cannot be empty"
    ELSE IF ByteLen(property) > maxPropertyLength THEN "property name too long"
    ELSE IF ~propertyNameRegex(property) THEN "property name contains invalid characters"
    ELSE IF ByteLen(value) = 0 THEN "property value cannot be empty"
    ELSE IF ByteLen(value) > maxValueLength THEN "property value too long"
    ELSE IF containsXMLInjection(value)
    THEN "property value contains potentially dangerous XML characters"
    ELSE ""

\* what a validator call leaves alone
ValidatorFrame ==
    UNCHANGED <<project, patches, propertyPatches, before, panicked, calls, result,
                directPatches, rewriterVars, analyzerVars, validated>>

\* a call of ValidatePatch
CallValidatePatch ==
    /\ pc = "validate"
    /\ validated.kind = "patch"
    /\ pc' = "validated"
    /\ err' = ValidatePatch(validated.patch)
    /\ ValidatorFrame

\* a call of ValidatePropertyPatch
CallValidatePropertyPatch ==
    /\ pc = "validate"
    /\ validated.kind = "property"
    /\ pc' = "validated"
    /\ err' = ValidatePropertyPatch(validated.property, validated.value)
    /\ ValidatorFrame

\* a call of ValidateFilePath
CallValidateFilePath ==
    /\ pc = "validate"
    /\ validated.kind = "path"
    /\ pc' = "validated"
    /\ err' = ValidateFilePath(validated.path)
    /\ ValidatorFrame

----------------------------------------------------------------------------
(* Inputs of the validators *)

Repeat(c, n) == [i \in 1..n |-> c]

\* "com.example", "my-artifact", "1.0.0", "jar"
ComExample == <<"c", "o", "m", ".", "e", "x", "a", "m", "p", "l", "e">>

MyArtifact == <<"m", "y", "-", "a", "r", "t", "i", "f", "a", "c", "t">>

OneZeroZero == <<"1", ".", "0", ".", "0">>

Jar == <<"j", "a", "r">>

GroupIDs ==
    {<<>>, ComExample, Repeat("a", maxGroupIDLength), Repeat("a", maxGroupIDLength + 1),
     <<"c", "o", "m", " ", "x">>, <<"a", "\n">>, <<"EACUTE">>}

ArtifactIDs ==
    {<<>>, MyArtifact, Repeat("Z", maxArtifactIDLength), Repeat("Z", maxArtifactIDLength + 1),
     <<"a", "/", "b">>}

ValidatedVersions ==
    {<<>>, OneZeroZero, <<"[", "1", ".", "0", ",", "2", ".", "0", ")">>,
     <<"(", ",", "1", "]", "!", "+", "_", "-">>,
     Repeat("9", maxVersionLength), Repeat("9", maxVersionLength + 1),
     <<"$", "{", "v", "}">>, <<"1", " ">>}

Scopes == {"", "compile", "provided", "runtime", "test", "system", "import", "Compile", "invalid"}

Types ==
    {<<>>, Jar, Repeat("t", maxTypeLength), Repeat("t", maxTypeLength + 1),
     <<"j", "a", "r", "<">>, Repeat("<", maxTypeLength + 1)}

PropertyNames ==
    {<<>>, <<"s", "l", "f", "4", "j", ".", "v", "e", "r", "s", "i", "o", "n">>,
     Repeat("p", maxPropertyLength), Repeat("p", maxPropertyLength + 1),
     <<"a", " ", "b">>, <<"$", "{", "p", "}">>}

\* the denylisted substrings as written, in capitals, with one capital, and
\* inside a longer value
Denylisted ==
    UNION {{dangerous[d], ToLower(dangerous[d]),
            [i \in 1..Len(dangerous[d]) |->
                IF \E k \in 1..Len(LowerCase) : LowerCase[k] = dangerous[d][i]
                THEN UpperCase[CHOOSE k \in 1..Len(LowerCase) : LowerCase[k] = dangerous[d][i]]
                ELSE dangerous[d][i]],
            <<"1">> \o ToLower(dangerous[d]) \o <<"2">>} : d \in 1..Len(dangerous)}

PropertyValues ==
    Denylisted \cup
    {<<>>, OneZeroZero, <<"$", "{", "v", "}">>,
     Repeat("v", maxValueLength), Repeat("v", maxValueLength + 1),
     Repeat("EACUTE", maxValueLength \div 2), Repeat("EACUTE", maxValueLength \div 2 + 1),
     <<"<", "a", ">">>, <<">", "<">>, <<"<">>, <<">">>, <<"1", "<", "2">>,
     <<"o", "n", "c", "l", "i", "c", "k", " ", "=">>,
     <<"<", "!", "-", "-">>, <<"&", "l", "t", ";">>}

\* paths with blanks, tabs and line ends around them
ValidatedPaths ==
    Paths \cup {<<c>> \o path \o <<d>> : path \in {<<>>, <<"a">>, <<".", ".">>, <<"NUL">>, <<"a", ".", ".", "b">>, <<".", " ", ".">>},
                                        c \in {" ", "\t"}, d \in {" ", "\n"}}

InitValidate ==
    /\ \/ \E g \in GroupIDs, a \in ArtifactIDs, v \in ValidatedVersions, s \in Scopes, t \in Types :
              validated = [kind |-> "patch", patch |-> Patch(g, a, v, s, t)]
       \/ \E property \in PropertyNames, value \in PropertyValues :
              validated = [kind |-> "property", property |-> property, value |-> value]
       \/ \E path \in ValidatedPaths : validated = [kind |-> "path", path |-> path]
    /\ project = NilProject
    /\ before = NilProject
    /\ patches = <<>>
    /\ propertyPatches = EmptyMap
    /\ panicked = FALSE
    /\ err = ""
    /\ calls = 0
    /\ result = EmptyResult
    /\ directPatches = <<>>
    /\ pc = "validate"
    /\ NoRewrite
    /\ pomFiles = <<>>
    /\ returned = "none"

NextValidate == CallValidatePatch \/ CallValidatePropertyPatch \/ CallValidateFilePath

SpecValidate == InitValidate /\ [][NextValidate]_vars

----------------------------------------------------------------------------
(* Both programs *)

\* the two operations that take a parsed project
InitProject == InitPatch \/ InitAnalyze

NextProject == PatchProject \/ AnalyzeProject

SpecProject == InitProject /\ [][NextProject]_vars

Init ==
    \/ InitPatch
    \/ InitStrategy
    \/ InitRewrite
    \/ InitAnalyze
    \/ InitAnalyzePath
    \/ InitValidate

Next ==
    \/ PatchProject
    \/ PatchStrategy
    \/ PreserveCommentsInPOMUpdate
    \/ AnalyzeProject
    \/ AnalyzeProjectPath
    \/ CallValidatePatch
    \/ CallValidatePropertyPatch
    \/ CallValidateFilePath

Spec == Init /\ [][Next]_vars

----------------------------------------------------------------------------
(* Properties of PatchStrategy, stated over its arguments (result, patches)  *)
(* and its return values (directPatches, propertyPatches).                  *)

Routed == pc = "routed"

PatchGroupIDs == {patches[i].groupId : i \in 1..Len(patches)}

InGroup(g) == {i \in 1..Len(patches) : patches[i].groupId = g}

\* patch i is the last request of the list for its (groupId, artifactId)
LastRequest(i) == \A j \in 1..Len(patches) : SameKey(patches[j], patches[i]) => j <= i

\* the version each artifact of the group ends up requesting
EffectiveVersions(g) == {patches[i].version : i \in {i \in InGroup(g) : LastRequest(i)}}

\* every version any patch of the group requests
RequestedVersions(g) == {patches[i].version : i \in InGroup(g)}

\* some two patches of the group name different artifacts and versions
RequestsDiffer(g) ==
    \E i, j \in InGroup(g) :
        patches[i].artifactId # patches[j].artifactId /\ patches[i].version # patches[j].version

\* at least two artifacts of the group, and their last requests disagree
Conflicting(g) ==
    \E i, j \in InGroup(g) :
        /\ LastRequest(i)
        /\ LastRequest(j)
        /\ patches[i].artifactId # patches[j].artifactId
        /\ patches[i].version # patches[j].version

HoldsBOM(g) == \E k \in 1..Len(result.BOMs) : BOMMatchesGroup(result.BOMs[k], g)

TheBOM(g) ==
    result.BOMs[CHOOSE k \in 1..Len(result.BOMs) :
                    /\ BOMMatchesGroup(result.BOMs[k], g)
                    /\ \A l \in 1..Len(result.BOMs) : BOMMatchesGroup(result.BOMs[l], g) => k <= l]

Absorbed(g) == Conflicting(g) /\ HoldsBOM(g)

AbsorbedGroups == {g \in PatchGroupIDs : Absorbed(g)}

Greatest(versions) == CHOOSE v \in versions : \A w \in versions : w = v \/ StrLess(w, v)

\* the patch a BOM recommendation for the group consists of
SynthesizedFor(g) ==
    Patch(TheBOM(g).GroupID, TheBOM(g).ArtifactID, Greatest(EffectiveVersions(g)), "import", "pom")

Known(p) == DepKey(p.groupId, p.artifactId) \in DOMAIN result.Dependencies

Info(p) == result.Dependencies[DepKey(p.groupId, p.artifactId)]

\* the analysed dependency of the patch references a property
ReferencesProperty(p) == Known(p) /\ Info(p).UsesProperty

\* the one way the patch is accounted for
RouteOf(p) ==
    IF Absorbed(p.groupId) THEN "bom"
    ELSE IF ReferencesProperty(p) /\ Info(p).PropertyName # <<>> THEN "property"
    ELSE "direct"

\* directPatches is the routed input patches followed by the synthesized ones
NRouted == Len(directPatches) - Cardinality(AbsorbedGroups)

RoutedPart == SubSeq(directPatches, 1, NRouted)

SynthesizedPart == SubSeq(directPatches, NRouted + 1, Len(directPatches))

IsDirectRoute(p) == RouteOf(p) = "direct"

\* the first patch of the list that is routed to the property
FirstFor(n) ==
    CHOOSE i \in 1..Len(patches) :
        /\ RouteOf(patches[i]) = "property"
        /\ Info(patches[i]).PropertyName = n
        /\ \A j \in 1..Len(patches) :
              (RouteOf(patches[j]) = "property" /\ Info(patches[j]).PropertyName = n) => i <= j

\* C7: routing is complete and exclusive.  Every input patch is accounted for
\* in exactly one way: the patches routed direct are directPatches' first
\* part, in input order; the properties referenced by the patches routed to a
\* property are exactly the keys of propertyPatches, each holding the version
\* of one of those patches; each absorbed group has exactly one synthesized BOM
\* patch, these being the rest of directPatches and nothing else.
C7_RoutingCompleteAndExclusive ==
    Routed =>
        /\ NRouted >= 0
        /\ RoutedPart = SelectSeq(patches, IsDirectRoute)
        /\ \E order \in Orders(AbsorbedGroups) :
              SynthesizedPart = [k \in 1..Len(order) |-> SynthesizedFor(order[k])]
        /\ DOMAIN propertyPatches =
              {Info(p).PropertyName : p \in {p \in Range(patches) : RouteOf(p) = "property"}}
        /\ \A n \in DOMAIN propertyPatches :
              \E p \in Range(patches) :
                  /\ RouteOf(p) = "property"
                  /\ Info(p).PropertyName = n
                  /\ propertyPatches[n] = p.version

\* one call routed a patch each way
C7_Witness ==
    /\ Routed
    /\ \E p \in Range(patches) : RouteOf(p) = "direct"
    /\ \E p \in Range(patches) : RouteOf(p) = "property"
    /\ \E p \in Range(patches) : RouteOf(p) = "bom"
    /\ Len(directPatches) >= 2
    /\ DOMAIN propertyPatches # {}

BOMCoordinates(g) ==
    {j \in 1..Len(directPatches) :
        /\ directPatches[j].groupId = TheBOM(g).GroupID
        /\ directPatches[j].artifactId = TheBOM(g).ArtifactID}

\* C8 (as claimed): when the patches of one groupId request at least two
\* artifacts with differing versions and the analysis holds a BOM for the
\* group, the result holds exactly one direct patch for the BOM's coordinates,
\* of type pom, scope import and the greatest requested version, and no direct
\* patch and no property update from a patch of that groupId.
C8_BOMForDifferingRequests ==
    Routed =>
        \A g \in PatchGroupIDs :
            (RequestsDiffer(g) /\ HoldsBOM(g)) =>
                /\ Cardinality(BOMCoordinates(g)) = 1
                /\ \A j \in BOMCoordinates(g) :
                      /\ directPatches[j].type = "pom"
                      /\ directPatches[j].scope = "import"
                      /\ directPatches[j].version = Greatest(RequestedVersions(g))
                /\ \A i \in InGroup(g) : patches[i] \notin Range(directPatches)
                /\ \A i \in InGroup(g) :
                      ReferencesProperty(patches[i]) =>
                          \A n \in DOMAIN propertyPatches :
                              n = Info(patches[i]).PropertyName =>
                                  \E j \in 1..Len(patches) :
                                      /\ patches[j].groupId # g
                                      /\ ReferencesProperty(patches[j])
                                      /\ Info(patches[j]).PropertyName = n
                                      /\ propertyPatches[n] = patches[j].version

\* C8 (amended): the versions that count are the last request of each
\* artifact.  When these differ for at least two artifacts of a groupId and
\* the analysis holds a BOM for the group, directPatches ends with one
\* synthesized patch per such group, this group's having the BOM's
\* coordinates, type pom, scope import and the greatest of those versions
\* under string comparison; no patch of the group is among the routed direct
\* patches, and every property update comes from a patch of a group that is
\* not absorbed.
C8_BOMForConflictingGroup ==
    Routed =>
        \A g \in PatchGroupIDs :
            Absorbed(g) =>
                /\ NRouted >= 0
                /\ \E j \in (NRouted + 1)..Len(directPatches) :
                      /\ directPatches[j].groupId = TheBOM(g).GroupID
                      /\ directPatches[j].artifactId = TheBOM(g).ArtifactID
                      /\ directPatches[j].type = "pom"
                      /\ directPatches[j].scope = "import"
                      /\ directPatches[j].version = Greatest(EffectiveVersions(g))
                /\ \A j \in 1..NRouted : directPatches[j].groupId # g
                /\ \A n \in DOMAIN propertyPatches :
                      \E i \in 1..Len(patches) :
                          /\ ~Absorbed(patches[i].groupId)
                          /\ ReferencesProperty(patches[i])
                          /\ Info(patches[i]).PropertyName = n
                          /\ propertyPatches[n] = patches[i].version

\* a group whose artifacts share a property was absorbed by its BOM, the
\* greatest version under string order being the numerically smaller one
C8_Witness ==
    /\ Routed
    /\ \E g \in AbsorbedGroups :
          /\ \E i \in InGroup(g) : ReferencesProperty(patches[i])
          /\ EffectiveVersions(g) = {V9, V10}
          /\ \E j \in 1..Len(directPatches) :
                directPatches[j] = Patch(TheBOM(g).GroupID, TheBOM(g).ArtifactID, V9, "import", "pom")

\* two patches for different artifacts that share a property and disagree
SharedPropertyPair ==
    /\ Len(patches) = 2
    /\ ~SameKey(patches[1], patches[2])
    /\ ReferencesProperty(patches[1])
    /\ ReferencesProperty(patches[2])
    /\ Info(patches[1]).PropertyName = Info(patches[2]).PropertyName
    /\ patches[1].version # patches[2].version

VersionAppears(v) ==
    \/ \E j \in 1..Len(directPatches) : directPatches[j].version = v
    \/ \E n \in DOMAIN propertyPatches : propertyPatches[n] = v

\* C9 (as claimed): of two patches for different artifacts that share one
\* version property and request different versions, the first in the list
\* sets the property and the later one's version appears nowhere in the result.
C9_FirstWins ==
    (Routed /\ SharedPropertyPair) =>
        /\ Info(patches[1]).PropertyName \in DOMAIN propertyPatches
        /\ propertyPatches[Info(patches[1]).PropertyName] = patches[1].version
        /\ ~VersionAppears(patches[2].version)

\* C9 (amended): first-wins holds among the patches whose groupId no BOM
\* recommendation absorbs: a property is set to the version of the first such
\* patch of the list that references it, and in a call of two such patches
\* the later one's version appears nowhere in the result.  Two patches of one
\* groupId for which the analysis holds a BOM are absorbed instead, and set no
\* property.
C9_FirstWinsUnlessAbsorbed ==
    Routed =>
        /\ \A n \in DOMAIN propertyPatches : propertyPatches[n] = patches[FirstFor(n)].version
        /\ (SharedPropertyPair /\ ~Absorbed(patches[1].groupId) /\ ~Absorbed(patches[2].groupId)) =>
              /\ Info(patches[1]).PropertyName \in DOMAIN propertyPatches
              /\ propertyPatches[Info(patches[1]).PropertyName] = patches[1].version
              /\ ~VersionAppears(patches[2].version)
        /\ (SharedPropertyPair /\ Absorbed(patches[1].groupId)) =>
              Info(patches[1]).PropertyName \notin DOMAIN propertyPatches

\* the first of two disagreeing patches set the shared property
C9_Witness ==
    /\ Routed
    /\ SharedPropertyPair
    /\ Info(patches[1]).PropertyName \in DOMAIN propertyPatches
    /\ propertyPatches[Info(patches[1]).PropertyName] = patches[1].version
    /\ directPatches = <<>>

\* C10 (as claimed): a patch whose dependency is known with a
\* property-reference version has its version recorded under that property's
\* name and is absent from directPatches, also when the property is not in
\* result.Properties; a patch whose dependency is unknown or has a literal
\* version is in directPatches unchanged.
C10_PropertyRouting ==
    Routed =>
        \A i \in 1..Len(patches) :
            IF ReferencesProperty(patches[i])
            THEN /\ Info(patches[i]).PropertyName \in DOMAIN propertyPatches
                 /\ propertyPatches[Info(patches[i]).PropertyName] = patches[i].version
                 /\ patches[i] \notin Range(directPatches)
            ELSE patches[i] \in Range(directPatches)

\* C10 (amended): for a patch whose groupId no BOM recommendation absorbs: if
\* its dependency is known with a reference to a property of non-empty name,
\* that name is a key of propertyPatches, holding this patch's version when it
\* is the first such patch of the list for the property, and the patch is not
\* among the routed direct patches, also when the property is not in
\* result.Properties; otherwise (unknown dependency, literal version, or the
\* reference ${} with an empty name) the patch is among the routed direct
\* patches with its five fields unchanged.
C10_PropertyRoutingUnlessAbsorbed ==
    Routed =>
        \A i \in 1..Len(patches) :
            ~Absorbed(patches[i].groupId) =>
                IF ReferencesProperty(patches[i]) /\ Info(patches[i]).PropertyName # <<>>
                THEN /\ Info(patches[i]).PropertyName \in DOMAIN propertyPatches
                     /\ (FirstFor(Info(patches[i]).PropertyName) = i =>
                            propertyPatches[Info(patches[i]).PropertyName] = patches[i].version)
                     /\ \A j \in 1..NRouted : directPatches[j] # patches[i]
                ELSE \E j \in 1..NRouted : directPatches[j] = patches[i]

\* a patch set a property the project does not define, beside a direct patch
\* for a dependency with a literal version and one for an unknown dependency
C10_Witness ==
    /\ Routed
    /\ \E i \in 1..Len(patches) :
          /\ RouteOf(patches[i]) = "property"
          /\ Info(patches[i]).PropertyName \notin DOMAIN result.Properties
          /\ propertyPatches[Info(patches[i]).PropertyName] = patches[i].version
          /\ patches[i] \notin Range(directPatches)
    /\ \E i \in 1..Len(patches) :
          Known(patches[i]) /\ ~Info(patches[i]).UsesProperty /\ patches[i] \in Range(directPatches)
    /\ \E i \in 1..Len(patches) : ~Known(patches[i]) /\ patches[i] \in Range(directPatches)

----------------------------------------------------------------------------
(* Properties of PreserveCommentsInPOMUpdate *)

Preserved == pc = "preserved"

\* the lines occur in the document, one after the other
Occurs(block, lines) ==
    \E at \in 0..(Len(lines) - Len(block)) :
        \A k \in 1..Len(block) : lines[at + k] = block[k]

\* the standalone comments of a file as its text shows them: the lines that
\* hold a whole comment and nothing else, and the runs from a line that opens
\* a comment to the line that closes it
StandaloneComments(lines) ==
    {<<lines[i]>> : i \in {i \in 1..Len(lines) : lines[i].kind = "comment"}}
    \cup {SubSeq(lines, i, i + 1) :
             i \in {i \in 1..(Len(lines) - 1) :
                       lines[i].kind = "commentStart" /\ lines[i + 1].kind = "commentEnd"}}

\* C11: comment round trip.  When the new document has the element structure
\* of the original, the returned document holds every standalone comment of
\* the original file, its lines unchanged and in one piece.
C11_CommentRoundTrip ==
    (Preserved /\ err = "" /\ outputContent = Skeleton) =>
        /\ merged.present
        /\ \A block \in StandaloneComments(original) : Occurs(block, merged.lines)

\* how many times a value is in a sequence
Count(x, seq) == Cardinality({i \in 1..Len(seq) : seq[i] = x})

\* the lines of the new document that insertComments goes through
KeptLines(output, comments) ==
    IF comments = <<>> \/ XMLDeclarationLine(output) = 0 THEN output
    ELSE SubSeq(output, XMLDeclarationLine(output), Len(output))

RECURSIVE SumOfLengths(_, _)
\* the number of lines of the blocks written, by their LineNumbers
SumOfLengths(emitted, comments) ==
    IF emitted = <<>> THEN 0
    ELSE Len((CHOOSE c \in Range(comments) : c.LineNumber = Head(emitted)).Content)
         + SumOfLengths(Tail(emitted), comments)

\* C12: each extracted comment block is written at most once into the output
\* of the insertion pass, whichever path writes it: the blocks written are
\* extracted blocks, none is written twice, the output is the lines of the
\* new document and the lines of the blocks written and nothing else, and a
\* comment line the new document does not hold itself is in the output at
\* most once.
C12_InsertedAtMostOnce ==
    (Preserved /\ merged.present) =>
        LET comments == ExtractAllComments(original)
        IN  /\ \A n \in Range(merged.emitted) :
                  /\ Count(n, merged.emitted) = 1
                  /\ \E c \in Range(comments) : c.LineNumber = n
            /\ outputContent # <<>> =>
                  Len(merged.lines) = Len(KeptLines(outputContent, comments))
                                      + SumOfLengths(merged.emitted, comments)
            /\ \A i \in 1..Len(original) :
                  (ContainsCommentOpen(original[i]) /\ original[i] \notin Range(outputContent)) =>
                      Count(original[i], merged.lines) <= 1

\* one call wrote a comment in front of its anchor element and another one
\* after the project line
C12_Witness ==
    /\ Preserved
    /\ merged.present
    /\ LET comments == ExtractAllComments(original)
       IN  /\ Len(merged.emitted) = 2
           /\ \E c \in Range(comments) :
                 /\ c.LineNumber \in Range(merged.emitted)
                 /\ c.BeforeXPath = <<"project", "modules", "module">>
           /\ \E c \in Range(comments) :
                 /\ c.LineNumber \in Range(merged.emitted)
                 /\ c.BeforeXPath = <<>>
                 /\ c.AfterXPath = <<"project">>

\* C13: for every path of the original file that ValidateFilePath rejects, in
\* particular every path that holds "..", PreserveCommentsInPOMUpdate returns
\* an error and no bytes and does not open the file.
C13_RejectedPathNotOpened ==
    (Preserved /\ ValidateFilePath(inputPath) # "") =>
        /\ err # ""
        /\ ~merged.present
        /\ ~opened

----------------------------------------------------------------------------
(* Properties of AnalyzeProject and AnalyzeProjectPath *)

Analyzed == pc = "analyzed" /\ returned = "value"

\* the version is one ${name} reference and nothing else
SingleReference(version) ==
    /\ IsPropertyReference(version)
    /\ \A i \in 3..(Len(version) - 1) : version[i] \notin {"$", "{", "}"}

\* C14: the analyzer classifies a dependency as property-based (UsesProperty
\* true, PropertyName recorded, usage counter incremented) iff its version is
\* a single ${name} reference spanning the whole string; every other version,
\* a literal, a partial interpolation with text around or between references
\* or a range, is classified as direct with no property recorded.
C14_PropertyIffSingleReference ==
    Analyzed =>
        \A k \in DOMAIN result.Dependencies :
            LET info == result.Dependencies[k]
            IN  IF SingleReference(info.Version)
                THEN /\ info.UsesProperty
                     /\ info.PropertyName = TrimReference(info.Version)
                     /\ CountOf(result.PropertyUsageCounts, info.PropertyName) >= 1
                ELSE /\ ~info.UsesProperty
                     /\ info.PropertyName = <<>>

\* the property names an analysis knows
KnownPropertyNames ==
    DOMAIN result.PropertyUsageCounts
    \cup {result.Dependencies[k].PropertyName :
             k \in {k \in DOMAIN result.Dependencies : result.Dependencies[k].UsesProperty}}

\* C15: after AnalyzeProject, for every property name p,
\* PropertyUsageCounts[p] is the number of entries of result.Dependencies
\* that reference p, which is the number of entries
\* GetAffectedDependencies(p) returns.
C15_UsageCountIsEntryCount ==
    Analyzed =>
        \A name \in KnownPropertyNames :
            /\ CountOf(result.PropertyUsageCounts, name) =
                  Cardinality({k \in DOMAIN result.Dependencies :
                                  /\ result.Dependencies[k].UsesProperty
                                  /\ result.Dependencies[k].PropertyName = name})
            /\ CountOf(result.PropertyUsageCounts, name) =
                  Cardinality(GetAffectedDependencies(result, name))

ImportedPOM(dep) == dep.scope = "import" /\ dep.type = "pom"

NotImportedPOM(dep) == ~ImportedPOM(dep)

AsBOM(dep) == BOMInfo(dep.groupId, dep.artifactId, dep.version, dep.type, dep.scope)

\* C16: AnalyzeProject records a dependency-management entry in result.BOMs,
\* and not in result.Dependencies, iff its scope is import and its type is
\* pom; every other dependency-management entry and every direct dependency,
\* whatever its scope and type, is recorded in result.Dependencies and not in
\* result.BOMs.  So result.BOMs is the imported POMs of the
\* dependency-management section in their order, and the keys of
\* result.Dependencies are those of the direct dependencies and of the other
\* dependency-management entries.
C16_BOMIffImportPom ==
    Analyzed =>
        LET imported == SelectSeq(project.dmDeps, ImportedPOM)
            others == Range(project.deps) \cup Range(SelectSeq(project.dmDeps, NotImportedPOM))
        IN  /\ result.BOMs = [k \in 1..Len(imported) |-> AsBOM(imported[k])]
            /\ DOMAIN result.Dependencies = {DepKey(d.groupId, d.artifactId) : d \in others}
            /\ \A k \in DOMAIN result.Dependencies :
                  \E d \in others :
                      /\ k = DepKey(d.groupId, d.artifactId)
                      /\ result.Dependencies[k].Version = d.version

\* a project with an imported POM in its dependencyManagement and with the
\* same artifact, at import scope and pom type, as a direct dependency
C16_Witness ==
    /\ Analyzed
    /\ Len(result.BOMs) = 1
    /\ \E d \in Range(project.deps) :
          /\ ImportedPOM(d)
          /\ DepKey(d.groupId, d.artifactId) \in DOMAIN result.Dependencies
          /\ result.BOMs[1].ArtifactID = d.artifactId

AnalyzedPath == pc = "analyzedPath" /\ returned = "value"

\* the files of the tree that the walk reads and that define the name
Defining(name) ==
    {i \in 1..Len(pomFiles) :
        /\ pomFiles[i].xml
        /\ ~pomFiles[i].excluded
        /\ pomFiles[i].parses
        /\ ~Pruned(pomFiles[i])
        /\ name \in DOMAIN pomFiles[i].props}

FirstDefining(name) == CHOOSE i \in Defining(name) : \A j \in Defining(name) : i <= j

\* C17: the property merge of AnalyzeProjectPath is first-found-wins: a name
\* the primary POM defines keeps the primary POM's value whatever the other
\* files define; a name the primary POM does not define takes the value of
\* the first file in walk order that defines it, no later file overwrites
\* it, and a name no file defines is not in result.Properties.
C17_FirstFoundWins ==
    AnalyzedPath =>
        /\ \A name \in DOMAIN project.props : 
              /\ name \in DOMAIN result.Properties
              /\ result.Properties[name] = project.props[name]
        /\ \A name \in PropNames \ DOMAIN project.props :
              IF Defining(name) = {}
              THEN name \notin DOMAIN result.Properties
              ELSE /\ name \in DOMAIN result.Properties
                   /\ result.Properties[name] = pomFiles[FirstDefining(name)].props[name]
        /\ DOMAIN result.Properties \subseteq PropNames

\* two files give q different values, and the first gives p another value
\* than the primary POM
C17_Witness ==
    /\ AnalyzedPath
    /\ <<"p">> \in DOMAIN project.props
    /\ Cardinality(Defining(<<"q">>)) = 2
    /\ pomFiles[1].props[<<"q">>] # pomFiles[2].props[<<"q">>]
    /\ <<"p">> \in DOMAIN pomFiles[1].props
    /\ pomFiles[1].props[<<"p">>] # project.props[<<"p">>]
    /\ result.Properties[<<"q">>] = pomFiles[1].props[<<"q">>]
    /\ result.Properties[<<"p">>] = project.props[<<"p">>]

\* C18: the property patches of PatchProject are an unconditional upsert:
\* after the call every key k of propertyPatches maps to propertyPatches[k]
\* in project.Properties, the container being created when the project has
\* none, and every property whose key is not in propertyPatches keeps its
\* previous value.
C18_PropertyUpsert ==
    Called =>
        /\ \A k \in DOMAIN propertyPatches :
              /\ project.propsPresent
              /\ k \in DOMAIN project.props
              /\ project.props[k] = propertyPatches[k]
        /\ \A k \in DOMAIN before.props \ DOMAIN propertyPatches :
              /\ k \in DOMAIN project.props
              /\ project.props[k] = before.props[k]

C20_NilProjectRejected ==
    /\ (calls > 0 /\ before.isNil) =>
          /\ err = "project is nil"
          /\ returned = "nil"
          /\ ~panicked
          /\ project = before
          /\ result = EmptyResult
    /\ (pc = "analyzed" /\ project.isNil) =>
          /\ err = "project is nil"
          /\ returned = "nil"
          /\ ~panicked
          /\ result = EmptyResult
          /\ calls = 0

\* AnalyzeProject has returned from a call with a nil project
C20_Witness ==
    /\ pc = "analyzed"
    /\ project.isNil
    /\ returned = "nil"
    /\ err # ""

----------------------------------------------------------------------------
(* Claims about the validators *)

ValidatedPatch == pc = "validated" /\ validated.kind = "patch"

ValidatedProperty == pc = "validated" /\ validated.kind = "property"

ValidatedPath == pc = "validated" /\ validated.kind = "path"

\* str is not empty, has at most max characters, all of them of the class
WithinClass(str, class, max) ==
    /\ str # <<>>
    /\ Len(str) <= max
    /\ \A i \in 1..Len(str) : str[i] \in class

IdentifierCharacters == Range(LowerCase) \cup Range(UpperCase) \cup Digits \cup {".", "_", "-"}

\* C21: ValidatePatch returns no error exactly when groupId and artifactId are
\* non-empty, at most 256 characters of letters, digits, dot, underscore and
\* dash; version is non-empty, at most 128 characters of that class plus
\* + [ ] ! ( ) and the comma; scope is empty or one of compile, provided,
\* runtime, test, system, import; type is empty or at most 64 characters of
\* the identifier class.
C21_ValidatePatchAcceptsExactly ==
    ValidatedPatch =>
        (err = "" <=>
            /\ WithinClass(validated.patch.groupId, IdentifierCharacters, 256)
            /\ WithinClass(validated.patch.artifactId, IdentifierCharacters, 256)
            /\ WithinClass(validated.patch.version,
                           IdentifierCharacters \cup {"+", "[", "]", "!", "(", ")", ","}, 128)
            /\ validated.patch.scope \in
                   {"", "compile", "provided", "runtime", "test", "system", "import"}
            /\ \/ validated.patch.type = <<>>
               \/ WithinClass(validated.patch.type, IdentifierCharacters, 64))

\* a patch whose fields are all as long as they may be, with a range version
\* and a scope, has been accepted
C21_Witness ==
    /\ ValidatedPatch
    /\ err = ""
    /\ Len(validated.patch.groupId) = 256
    /\ Len(validated.patch.artifactId) = 256
    /\ Len(validated.patch.type) = 64
    /\ validated.patch.scope = "import"
    /\ \E i \in 1..Len(validated.patch.version) : validated.patch.version[i] = "["

\* C22: ValidateFilePath returns no error exactly when the path is not empty
\* once the white space around it is trimmed, holds no ".." anywhere and no
\* null byte; hence no accepted path has a ".." segment.
C22_ValidateFilePathAcceptsExactly ==
    ValidatedPath =>
        /\ err = "" <=>
              /\ TrimSpace(validated.path) # <<>>
              /\ ~\E i \in 1..(Len(validated.path) - 1) :
                     validated.path[i] = "." /\ validated.path[i + 1] = "."
              /\ ~\E i \in 1..Len(validated.path) : validated.path[i] = "NUL"
        /\ err = "" => <<".", ".">> \notin Range(SplitPath(validated.path, <<>>))

\* a path with white space around it and two separated dots in it has been
\* accepted
C22_Witness ==
    /\ ValidatedPath
    /\ err = ""
    /\ TrimSpace(validated.path) # validated.path
    /\ Cardinality({i \in 1..Len(validated.path) : validated.path[i] = "."}) = 2

Denylist ==
    { <<"<", "!", "e", "n", "t", "i", "t", "y">>,
      <<"<", "!", "d", "o", "c", "t", "y", "p", "e">>,
      <<"<", "!", "[", "c", "d", "a", "t", "a", "[">>,
      <<"<", "?", "x", "m", "l">>,
      <<"<", "s", "c", "r", "i", "p", "t">>,
      <<"j", "a", "v", "a", "s", "c", "r", "i", "p", "t", ":">>,
      <<"o", "n", "e", "r", "r", "o", "r", "=">>,
      <<"o", "n", "c", "l", "i", "c", "k", "=">> }

\* some spelling of the substring, in whatever letter case, occurs in str
OccursInAnyCase(substr, str) ==
    \E i \in 0..(Len(str) - Len(substr)) :
        \A k \in 1..Len(substr) : ToLowerChar(str[i + k]) = substr[k]

\* C23: ValidatePropertyPatch accepts a (name, value) pair only if the name is
\* non-empty, at most 256 characters of the identifier class, and the value is
\* non-empty, at most 1024 characters, holds no denylisted substring in any
\* letter case, and does not hold both < and >.
C23_ValidatePropertyPatchAcceptsOnly ==
    ValidatedProperty /\ err = "" =>
        /\ WithinClass(validated.property, IdentifierCharacters, 256)
        /\ validated.value # <<>>
        /\ Len(validated.value) <= 1024
        /\ \A d \in Denylist : ~OccursInAnyCase(d, validated.value)
        /\ ~(/\ \E i \in 1..Len(validated.value) : validated.value[i] = "<"
             /\ \E i \in 1..Len(validated.value) : validated.value[i] = ">")

\* a value that holds < without >, under a name of the longest length, has
\* been accepted
C23_Witness ==
    /\ ValidatedProperty
    /\ err = ""
    /\ Len(validated.property) = 256
    /\ \E i \in 1..Len(validated.value) : validated.value[i] = "<"

----------------------------------------------------------------------------
(* Properties of the extraction and the insertion pass *)

\* the extracted block that starts on line i (from 1) of the original
BlockAt(lines, i) == CHOOSE c \in Range(ExtractAllComments(lines)) : c.LineNumber = i - 1

\* the lines on which a standalone comment of the file starts
CommentStarts(lines) ==
    {i \in 1..Len(lines) :
        \/ lines[i].kind = "comment"
        \/ lines[i].kind = "commentStart" /\ i < Len(lines) /\ lines[i + 1].kind = "commentEnd"}

\* the line on which the standalone comment that starts on line i ends
CommentEnd(lines, i) == IF lines[i].kind = "comment" THEN i ELSE i + 1

\* line i holds an element: the k-th line of the document that holds its tag
OccurrenceNumber(lines, i) ==
    Cardinality({j \in 1..i : OpenTag(lines[j]) = OpenTag(lines[i])})

\* the line that holds the k-th element of the tag, 0 if there is none
NthOccurrence(lines, tag, k) ==
    IF \E i \in 1..Len(lines) : OpenTag(lines[i]) = tag /\ OccurrenceNumber(lines, i) = k
    THEN CHOOSE i \in 1..Len(lines) : OpenTag(lines[i]) = tag /\ OccurrenceNumber(lines, i) = k
    ELSE 0

\* the tag stands on more than one line of the document
RepeatedTag(lines, tag) ==
    tag # "" /\ Cardinality({j \in 1..Len(lines) : OpenTag(lines[j]) = tag}) > 1

\* the blocks written, in the order of writing
EmittedBlocks ==
    [n \in 1..Len(merged.emitted) |-> BlockAt(original, merged.emitted[n] + 1)]

\* C24: comment placement among repeated siblings.  A standalone comment that
\* stood immediately in front of the k-th element of a repeated sibling tag in
\* the original stands immediately in front of the k-th element of that tag
\* in the returned document; no more comments are written for an anchor path
\* than the new document has elements of it; comments of one anchor path are
\* written in their original order.
C24_RepeatedSiblingPlacement ==
    (Preserved /\ err = "" /\ merged.present /\ outputContent # <<>>) =>
        /\ \A i \in CommentStarts(original) :
              LET e == CommentEnd(original, i) + 1
              IN  (/\ e <= Len(original)
                   /\ RepeatedTag(original, OpenTag(original[e]))
                   /\ NthOccurrence(outputContent, OpenTag(original[e]),
                                    OccurrenceNumber(original, e)) # 0) =>
                      LET q == NthOccurrence(merged.lines, OpenTag(original[e]),
                                             OccurrenceNumber(original, e))
                      IN  /\ q > e - i
                          /\ SubSeq(merged.lines, q - (e - i), q - 1) = SubSeq(original, i, e - 1)
        /\ \A n \in 1..Len(merged.emitted) :
              EmittedBlocks[n].BeforeXPath # <<>> =>
                  Cardinality({m \in 1..Len(merged.emitted) :
                                  EmittedBlocks[m].BeforeXPath = EmittedBlocks[n].BeforeXPath})
                  <= Cardinality({j \in 1..Len(outputContent) :
                                     OpenTag(outputContent[j])
                                       = EmittedBlocks[n].BeforeXPath[Len(EmittedBlocks[n].BeforeXPath)]})
        /\ \A n, m \in 1..Len(merged.emitted) :
              (n < m /\ EmittedBlocks[n].BeforeXPath = EmittedBlocks[m].BeforeXPath
                     /\ EmittedBlocks[n].BeforeXPath # <<>>) =>
                  merged.emitted[n] < merged.emitted[m]

RECURSIVE Embeds(_, _)
\* the lines of a are lines of b, in their order
Embeds(a, b) ==
    IF a = <<>> THEN TRUE
    ELSE IF b = <<>> THEN FALSE
    ELSE IF Head(a) = Head(b) THEN Embeds(Tail(a), Tail(b))
    ELSE Embeds(a, Tail(b))

\* C25: the insertion pass never drops, duplicates or reorders a line of the
\* new document: the output holds the lines of the new document in their
\* order and, besides them, only the lines of the comments written; with no
\* comment to insert the output is the new document.
C25_NewDocumentLinesKept ==
    (Preserved /\ err = "" /\ merged.present) =>
        LET comments == ExtractAllComments(original)
        IN  /\ Embeds(outputContent, merged.lines)
            /\ Len(merged.lines) = Len(outputContent) + SumOfLengths(merged.emitted, comments)
            /\ comments = <<>> => merged.lines = outputContent

\* C26: a comment that starts after the <?xml line of the original file is
\* never written in front of the <?xml line of the returned document.
C26_NothingMovesAheadOfDeclaration ==
    (Preserved /\ err = "" /\ merged.present) =>
        \A i \in CommentStarts(original) :
            (/\ XMLDeclarationLine(original) # 0
             /\ i > XMLDeclarationLine(original)
             /\ XMLDeclarationLine(merged.lines) # 0) =>
                ~\E q \in 1..(XMLDeclarationLine(merged.lines) - 1) :
                     merged.lines[q] = original[i]

RECURSIVE StructuralPath(_, _)
\* the stack of open tags behind the first n lines of a document, every line
\* that holds a tag counted
StructuralPath(lines, n) ==
    IF n = 0 THEN <<>>
    ELSE LET line == lines[n]
             pushed == IF OpenTag(line) # "" /\ ~SelfClosing(line)
                       THEN Append(StructuralPath(lines, n - 1), OpenTag(line))
                       ELSE StructuralPath(lines, n - 1)
         IN  IF CloseTag(line) # "" /\ pushed # <<>> /\ pushed[Len(pushed)] = CloseTag(line)
             THEN SubSeq(pushed, 1, Len(pushed) - 1)
             ELSE pushed

\* the document with every comment taken out of it
Stripped(lines) ==
    LET kept == SelectSeq(lines, LAMBDA l : l.kind \notin {"comment", "commentStart", "commentEnd"})
    IN  [j \in 1..Len(kept) |->
            IF kept[j].kind = "openInline" THEN Line("open", kept[j].tag, "")
            ELSE IF kept[j].kind = "inline" THEN Line("leaf", kept[j].tag, "")
            ELSE kept[j]]

\* C27: the path recorded for a standalone comment that stands between the
\* <?xml line and the closing project line is the structural path at its
\* position, every line with a tag counted, comment on the line or not; it is
\* the path of the same position of the new document without the comments.
C27_RecordedPathIsStructuralPath ==
    Preserved =>
        \A i \in CommentStarts(original) :
            (/\ XMLDeclarationLine(original) # 0
             /\ i > XMLDeclarationLine(original)
             /\ i - 1 < ProjectCloseLineNum(original)) =>
                /\ BlockAt(original, i).AfterXPath = StructuralPath(original, i - 1)
                /\ BlockAt(original, i).AfterXPath
                     = StructuralPath(Stripped(original),
                                      Len(Stripped(SubSeq(original, 1, i - 1))))

\* the lines of the original behind the closing project line
Trailing(lines) ==
    IF ProjectCloseLineNum(lines) < 0 THEN <<>>
    ELSE SubSeq(lines, ProjectCloseLineNum(lines) + 2, Len(lines))

\* C29: every standalone comment that starts behind the closing project line
\* of the original is tagged END_OF_FILE, and the returned document ends with
\* these comments, each written once, in their original order.
C29_TrailingCommentsAtEnd ==
    (Preserved /\ err = "" /\ merged.present /\ outputContent # <<>>) =>
        /\ \A i \in CommentStarts(original) :
              (ProjectCloseLineNum(original) >= 0 /\ i - 1 > ProjectCloseLineNum(original)) =>
                  /\ BlockAt(original, i).AfterXPath = END_OF_FILE
                  /\ Count(i - 1, merged.emitted) = 1
        /\ Len(merged.lines) > Len(Trailing(original))
        /\ merged.lines[Len(merged.lines) - Len(Trailing(original))]
             = outputContent[Len(outputContent)]
        /\ SubSeq(merged.lines, Len(merged.lines) - Len(Trailing(original)) + 1,
                  Len(merged.lines)) = Trailing(original)

----------------------------------------------------------------------------
(* Determinism of PatchProject *)

\* the place in the patch list of the first patch that the entry was made from
PatchIndex(dep) ==
    IF \E i \in 1..Len(patches) : NewDependency(patches[i]) = dep
    THEN CHOOSE i \in 1..Len(patches) :
             /\ NewDependency(patches[i]) = dep
             /\ \A j \in 1..(i - 1) : NewDependency(patches[j]) # dep
    ELSE 0

\* C28: PatchProject is deterministic.  The dependency-management entries that
\* a call appends stand in the order of the patch list, so that two runs on
\* equal inputs yield equal dependency-management lists.
C28_AppendedInPatchOrder ==
    Returned =>
        \A i, j \in (Len(before.dmDeps) + 1)..Len(project.dmDeps) :
            i < j => PatchIndex(project.dmDeps[i]) < PatchIndex(project.dmDeps[j])

----------------------------------------------------------------------------
(* The files the property search leaves out *)

PrunedNames ==
    { <<"t", "a", "r", "g", "e", "t">>,
      <<"n", "o", "d", "e", "_", "m", "o", "d", "u", "l", "e", "s">>,
      <<"b", "u", "i", "l", "d">>,
      <<"d", "i", "s", "t">>,
      <<"o", "u", "t">> }

\* the file lies under a directory of the walk whose name starts with a dot
\* or is target, node_modules, build, dist or out
UnderPrunedDirectory(file) ==
    \E k \in 1..Len(file.dirs) :
        \/ file.dirs[k] # <<>> /\ file.dirs[k][1] = "."
        \/ file.dirs[k] \in PrunedNames

\* the files a property may be taken from
Eligible(file) ==
    /\ ~UnderPrunedDirectory(file)
    /\ ~file.excluded
    /\ file.xml
    /\ file.parses

====
